---- MODULE Spec2Model ----
(***************************************************************************)
(* Receipt auto-input agent: the batch runner of the HTTP server (upload   *)
(* store, counting semaphore, per-image extraction, result classification  *)
(* and response) and the account classification cascade getAccountInfo.    *)
(***************************************************************************)
EXTENDS Integers, Sequences, FiniteSets, TLC

\* ------------------------------------------------------------------------
\* Bounds of the model
\* ------------------------------------------------------------------------

\* number of uploads over the life of the process (so the size of a batch)
MaxFiles == 4

\* ------------------------------------------------------------------------
\* Program constants
\* ------------------------------------------------------------------------

\* const MAX_CONCURRENT = 2
MAX_CONCURRENT == 2

\* The batch-process requests of the model.  Every request builds its own
\* Semaphore.  Spec runs one request; requests that do not act stay "idle".
Requests == {1, 2}

SingleRequest == {1}

\* error.message of the Error an extraction call can throw
ErrorMessages == {"extraction", "connection"}

\* what a successful extraction call can resolve to: parsed JSON with the
\* amount field the report needs, or parsed JSON without it
ReceiptKinds == {TRUE, FALSE}

VARIABLES
    fileStorage,   \* the Map fileStorage: file ids in insertion order
    nextFileId,    \* the next fresh file id (Date.now() + random)
    phase,         \* per request: "idle", "running", "responded"
    batchFiles,    \* per request: Array.from(fileStorage.entries()), the ids
    promise,       \* per request: per item, the state of processPromises[i]
    semaphore,     \* per request: the Semaphore object
    expired,       \* per request: items whose configured timeout has elapsed
    admitLog,      \* per request: items in the order the semaphore admitted them
    waited,        \* per request: items whose acquire() had to queue
    receiptData,   \* per request: the receiptData array after classification
    errors,        \* per request: the errors array after classification
    response,      \* per request: the HTTP response sent
    calls,         \* per request: per item, the processImage calls made
    servedBy,      \* per request: per item, the provider its call was made on
    firstSettled,  \* per request: the item that settled first (0: none yet)
    ACCOUNT_DATA,  \* the accounting master read at start-up
    itemName,      \* the argument of a getAccountInfo call
    accountInfo,   \* what that call returned
    LLM_CONFIG,    \* the configuration built from process.env
    llmService,    \* the active provider instance
    invoked,       \* the factory / provider / endpoint call made last
    returned       \* what that call returned, threw or answered

vars == <<fileStorage, nextFileId, phase, batchFiles, promise, semaphore,
          expired, admitLog, waited, receiptData, errors, response, calls,
          servedBy, firstSettled,
          ACCOUNT_DATA, itemName, accountInfo,
          LLM_CONFIG, llmService, invoked, returned>>

llmVars == <<LLM_CONFIG, llmService, invoked, returned>>

classifyVars == <<ACCOUNT_DATA, itemName, accountInfo>>

storeVars == <<fileStorage, nextFileId>>

batchVars == <<phase, batchFiles, promise, semaphore, expired, admitLog,
               waited, receiptData, errors, response, calls, servedBy,
               firstSettled>>

\* ------------------------------------------------------------------------
\* Helpers on sequences
\* ------------------------------------------------------------------------

Range(s) == {s[k] : k \in 1..Len(s)}

RECURSIVE SelectSeqBy(_, _)
\* s.filter(x => x \notin drop)
SelectSeqBy(s, drop) ==
    IF s = <<>> THEN <<>>
    ELSE IF Head(s) \in drop THEN SelectSeqBy(Tail(s), drop)
         ELSE <<Head(s)>> \o SelectSeqBy(Tail(s), drop)

\* ------------------------------------------------------------------------
\* class Semaphore
\* ------------------------------------------------------------------------

\* constructor(maxConcurrent)
NewSemaphore(maxConcurrent) ==
    [maxConcurrent |-> maxConcurrent, currentConcurrent |-> 0, queue |-> <<>>]

\* the test of acquire(): this.currentConcurrent < this.maxConcurrent
AcquireAdmitsOffByOne(s) == s.currentConcurrent <= s.maxConcurrent

AcquireAdmits(s) == s.currentConcurrent < s.maxConcurrent

\* acquire(): the caller i is admitted at once, or its resolve is queued
Acquire(s, i) ==
    IF AcquireAdmits(s)
    THEN [s EXCEPT !.currentConcurrent = @ + 1]
    ELSE [s EXCEPT !.queue = Append(@, i)]

\* this.queue.pop() in place of this.queue.shift()
ShiftFromTail(queue) ==
    [next |-> queue[Len(queue)], rest |-> SubSeq(queue, 1, Len(queue) - 1)]

\* this.queue.shift() on a non-empty queue: the element taken and the rest
Shift(queue) == [next |-> Head(queue), rest |-> Tail(queue)]

\* release() that gives the slot back and wakes nobody
ReleaseWithoutWake(s) == [s EXCEPT !.currentConcurrent = @ - 1]

\* release() that hands the queue's head its turn without counting it
ReleaseWakesUncounted(s) ==
    LET s1 == [s EXCEPT !.currentConcurrent = @ - 1]
    IN  IF Len(s1.queue) > 0
        THEN [s1 EXCEPT !.queue = Shift(@).rest]
        ELSE s1

\* release(): the slot is given back and, with a waiter queued, handed to
\* the waiter at the head of the queue
Release(s) ==
    LET s1 == [s EXCEPT !.currentConcurrent = @ - 1]
    IN  IF Len(s1.queue) > 0
        THEN [s1 EXCEPT !.queue = Shift(@).rest, !.currentConcurrent = @ + 1]
        ELSE s1

\* the waiter whose resolve release() calls (next()), or 0 when it calls none
ReleaseWakes(s) ==
    IF Len(s.queue) > Len(Release(s).queue) THEN Shift(s.queue).next ELSE 0

\* ------------------------------------------------------------------------
\* processImageWithSemaphore and the batch-process handler
\* ------------------------------------------------------------------------

\* a promise of processPromises that waits in semaphore.acquire()
AtAcquire == [state |-> "pending", at |-> "acquire"]

\* a promise whose extraction call (processReceiptOCR) is in flight
AtCall == [state |-> "pending", at |-> "call"]

\* try-branch: return { success: true, fileId, fileName, result: ocrResult }
ReturnSuccess(fileId, hasAmount) ==
    [state |-> "fulfilled",
     value |-> [success |-> TRUE, fileId |-> fileId,
                result |-> [source |-> fileId, hasAmount |-> hasAmount]]]

\* no catch: the Error of the extraction call rejects the promise
CatchRethrows(fileId, message) == [state |-> "rejected", reason |-> message]

\* catch-branch: return { success: false, fileId, fileName, error: error.message }
CatchError(fileId, message) ==
    [state |-> "fulfilled",
     value |-> [success |-> FALSE, fileId |-> fileId, error |-> message]]

RECURSIVE AcquireAll(_, _, _)
\* the map() over the entries: item k..n call semaphore.acquire() one after
\* the other, before any of them gets to run further
AcquireAll(s, k, n) ==
    IF k > n THEN [sem |-> s, admitted |-> <<>>, queued |-> {}]
    ELSE LET rest == AcquireAll(Acquire(s, k), k + 1, n)
         IN  IF AcquireAdmits(s)
             THEN [rest EXCEPT !.admitted = <<k>> \o @]
             ELSE [rest EXCEPT !.queued = @ \cup {k}]

InFlight(r) ==
    {i \in 1..Len(promise[r]) : promise[r][i] = AtCall}

Queued(r) ==
    {i \in 1..Len(promise[r]) : promise[r][i] = AtAcquire}

Settled(ps) == \A i \in 1..Len(ps) : ps[i].state # "pending"

RECURSIVE ReceiptsOfNewestFirst(_)
\* receiptData.unshift(result.value.result) in place of push
ReceiptsOfNewestFirst(ps) ==
    IF ps = <<>> THEN <<>>
    ELSE LET p == Head(ps)
         IN  IF p.state = "fulfilled" /\ p.value.success
             THEN ReceiptsOfNewestFirst(Tail(ps)) \o <<p.value.result>>
             ELSE ReceiptsOfNewestFirst(Tail(ps))

RECURSIVE ReceiptsOfStillStored(_)
\* a classification that looks the files up in the store again: the receipt
\* of a file that was removed meanwhile is dropped
ReceiptsOfStillStored(ps) ==
    IF ps = <<>> THEN <<>>
    ELSE LET p == Head(ps)
         IN  IF /\ p.state = "fulfilled"
                /\ p.value.success
                /\ p.value.fileId \in Range(fileStorage)
             THEN <<p.value.result>> \o ReceiptsOfStillStored(Tail(ps))
             ELSE ReceiptsOfStillStored(Tail(ps))

RECURSIVE ReceiptsOf(_)
\* results.forEach: receiptData.push(ocrResult) for fulfilled successes
ReceiptsOf(ps) ==
    IF ps = <<>> THEN <<>>
    ELSE LET p == Head(ps)
         IN  IF p.state = "fulfilled" /\ p.value.success
             THEN <<p.value.result>> \o ReceiptsOf(Tail(ps))
             ELSE ReceiptsOf(Tail(ps))

\* the id `unknown_${index}` reported for a rejected promise; file ids are
\* positive, so the negative numbers stand for the unknown_ ids
UnknownId(index) == 0 - (index + 1)

\* a classification that forgets the else branch of `if (success)`
ErrorsOfFulfilledDropped(ps, index) ==
    LET rejected == {k \in 1..Len(ps) : ps[k].state = "rejected"}
    IN  [k \in 1..Cardinality(rejected) |->
            [fileId |-> UnknownId(index), error |-> "Unknown error"]]

RECURSIVE ErrorsOf(_, _)
\* results.forEach: errors.push(...) for fulfilled failures and for rejected
\* promises (fileId `unknown_${index}`); index is the 0-based position
ErrorsOf(ps, index) ==
    IF ps = <<>> THEN <<>>
    ELSE LET p == Head(ps)
             rest == ErrorsOf(Tail(ps), index + 1)
         IN  IF p.state = "fulfilled"
             THEN IF p.value.success THEN rest
                  ELSE <<[fileId |-> p.value.fileId, error |-> p.value.error]>> \o rest
             ELSE <<[fileId |-> UnknownId(index), error |-> p.reason]>> \o rest

\* generateExcelFile(receiptData) throws on a receipt without amount
\* (receipt.amount.toLocaleString())
GenerateExcelThrows(receipts) ==
    \E k \in 1..Len(receipts) : ~receipts[k].hasAmount

\* the response after classification
ResponseOf(receipts) ==
    IF Len(receipts) = 0 THEN "500_no_receipt"
    ELSE IF GenerateExcelThrows(receipts) THEN "500_error"
    ELSE "200"

\* ------------------------------------------------------------------------
\* Strings: a JavaScript string is the sequence of its characters
\* ------------------------------------------------------------------------

UpperCaseLetters ==
    <<"A", "B", "C", "D", "E", "F", "G", "H", "I", "J", "K", "L", "M",
      "N", "O", "P", "Q", "R", "S", "T", "U", "V", "W", "X", "Y", "Z">>

LowerCaseLetters ==
    <<"a", "b", "c", "d", "e", "f", "g", "h", "i", "j", "k", "l", "m",
      "n", "o", "p", "q", "r", "s", "t", "u", "v", "w", "x", "y", "z">>

\* String.prototype.toLowerCase without any case mapping
ToLowerCaseIdentity(s) == s

\* String.prototype.toLowerCase on the characters of the model (the Latin
\* capitals are mapped, kana and kanji have no case)
ToLowerCase(s) ==
    [k \in 1..Len(s) |->
        IF \E u \in 1..Len(UpperCaseLetters) : UpperCaseLetters[u] = s[k]
        THEN LowerCaseLetters[CHOOSE u \in 1..Len(UpperCaseLetters) :
                                  UpperCaseLetters[u] = s[k]]
        ELSE s[k]]

\* String.prototype.includes: t occurs in s as a contiguous substring
Includes(s, t) ==
    \E k \in 0..(Len(s) - Len(t)) : \A j \in 1..Len(t) : s[k + j] = t[j]

RECURSIVE SplitFirst(_, _)
\* key.split(sep)[0]: the part of key before the first sep
SplitFirst(key, sep) ==
    IF key = <<>> \/ Head(key) = sep THEN <<>>
    ELSE <<Head(key)>> \o SplitFirst(Tail(key), sep)

\* A character outside ASCII is written as the letter u and its code point
\* (four hexadecimal digits): <<"u7d75", "u672c">> is the string 絵本.

\* the value `undefined` of a property that is not there
Undefined == <<"undefined">>

\* ------------------------------------------------------------------------
\* Object property enumeration (for ... in)
\* ------------------------------------------------------------------------

Digits == <<"0", "1", "2", "3", "4", "5", "6", "7", "8", "9">>

IsDigit(c) == \E d \in 1..Len(Digits) : Digits[d] = c

DigitValue(c) == (CHOOSE d \in 1..Len(Digits) : Digits[d] = c) - 1

RECURSIVE NumericValue(_, _)
\* the number a string of digits denotes (acc: the value read so far)
NumericValue(key, acc) ==
    IF key = <<>> THEN acc
    ELSE NumericValue(Tail(key), acc * 10 + DigitValue(Head(key)))

\* an integer-like property key (canonical, below 2^32 - 1): for ... in
\* enumerates these first, in ascending numeric order
IsArrayIndex(key) ==
    /\ Len(key) >= 1
    /\ Len(key) <= 10
    /\ \A k \in 1..Len(key) : IsDigit(key[k])
    /\ Len(key) = 1 \/ key[1] # "0"
    /\ \/ Len(key) < 10
       \/ LET high == NumericValue(SubSeq(key, 1, 5), 0)
              low == NumericValue(SubSeq(key, 6, 10), 0)
          IN  high < 42949 \/ (high = 42949 /\ low < 67295)

RECURSIVE DistinctKeys(_, _)
\* the keys of a sequence of keys, each once, in order of first appearance
DistinctKeys(keys, seen) ==
    IF keys = <<>> THEN <<>>
    ELSE IF Head(keys) \in seen THEN DistinctKeys(Tail(keys), seen)
         ELSE <<Head(keys)>> \o DistinctKeys(Tail(keys), seen \cup {Head(keys)})

RECURSIVE AscendingKeys(_)
\* a set of integer-like keys in ascending numeric order
AscendingKeys(keys) ==
    IF keys = {} THEN <<>>
    ELSE LET least == CHOOSE k \in keys :
                         \A other \in keys :
                             NumericValue(k, 0) <= NumericValue(other, 0)
         IN  <<least>> \o AscendingKeys(keys \ {least})

\* for (const key in object): integer-like keys ascending, then the other
\* keys in the order the object declares them
ForIn(declared) ==
    LET keys == DistinctKeys(declared, {})
        IsName(k) == ~IsArrayIndex(k)
    IN  AscendingKeys({keys[k] : k \in {j \in 1..Len(keys) : IsArrayIndex(keys[j])}})
            \o SelectSeq(keys, IsName)

\* ------------------------------------------------------------------------
\* The accounting master (ACCOUNT_DATA) and getAccountInfo
\* ------------------------------------------------------------------------

\* the bound on the number of accounts of a master of the model
MaxAccounts == 2

\* the bound on the number of fragments an item description is made of
MaxParts == 2

\* the two section keys getAccountInfo visits
AssetsSection == <<"u8cc7", "u7523", "u306e", "u90e8">>   \* 資産の部

ProfitLossSection == <<"u640d", "u76ca", "u306e", "u90e8">>   \* 損益の部

\* A master is the sequence of its accounts in the order the JSON document
\* declares them, each with the keys of the section, group and main account
\* it is nested in, its own key, and its content.
\* 損益の部 / 販売管理費 / 経費 / 74530_旅費交通費: 旅費交通費 (74530) with the
\* sub-accounts 0002 タクシー代 and 0004 出張旅費
TravelAccount ==
    [section |-> ProfitLossSection,
     group |-> <<"u8ca9", "u58f2", "u7ba1", "u7406", "u8cbb">>,
     main |-> <<"u7d4c", "u8cbb">>,
     key |-> <<"7", "4", "5", "3", "0", "_", "u65c5", "u8cbb", "u4ea4", "u901a", "u8cbb">>,
     account |->
        [name |-> <<"u65c5", "u8cbb", "u4ea4", "u901a", "u8cbb">>,
         code |-> <<"7", "4", "5", "3", "0">>,
         subs |-> <<[code |-> <<"0", "0", "0", "2">>,
                     name |-> <<"u30bf", "u30af", "u30b7", "u30fc", "u4ee3">>],
                    [code |-> <<"0", "0", "0", "4">>,
                     name |-> <<"u51fa", "u5f35", "u65c5", "u8cbb">>]>>]]

\* an account without sub-accounts:
\* 資産の部 / 流動資産 / 現金預金 / 11110_現金: 現金 (11110)
CashAccount ==
    [section |-> AssetsSection,
     group |-> <<"u6d41", "u52d5", "u8cc7", "u7523">>,
     main |-> <<"u73fe", "u91d1", "u9810", "u91d1">>,
     key |-> <<"1", "1", "1", "1", "0", "_", "u73fe", "u91d1">>,
     account |->
        [name |-> <<"u73fe", "u91d1">>,
         code |-> <<"1", "1", "1", "1", "0">>,
         subs |-> <<>>]]

\* an account without an explicit code (its key starts with the code):
\* 損益の部 / 販売管理費 / 経費 / 74615_PC用品: PC用品, sub-account 0003 USBメモリ
PcAccount ==
    [section |-> ProfitLossSection,
     group |-> <<"u8ca9", "u58f2", "u7ba1", "u7406", "u8cbb">>,
     main |-> <<"u7d4c", "u8cbb">>,
     key |-> <<"7", "4", "6", "1", "5", "_", "P", "C", "u7528", "u54c1">>,
     account |-> [name |-> <<"P", "C", "u7528", "u54c1">>, code |-> <<>>,
                  subs |-> <<[code |-> <<"0", "0", "0", "3">>,
                             name |-> <<"U", "S", "B", "u30e1", "u30e2", "u30ea">>]>>]]

\* an account whose key is the bare code, without explicit code and without
\* sub-accounts:
\* 損益の部 / 販売管理費 / 経費 / 74535: 出張旅費
NumberedAccount ==
    [section |-> ProfitLossSection,
     group |-> <<"u8ca9", "u58f2", "u7ba1", "u7406", "u8cbb">>,
     main |-> <<"u7d4c", "u8cbb">>,
     key |-> <<"7", "4", "5", "3", "5">>,
     account |->
        [name |-> <<"u51fa", "u5f35", "u65c5", "u8cbb">>,
         code |-> <<>>,
         subs |-> <<>>]]

\* an account outside the data model, its sub-account has no name:
\* 損益の部 / 販売管理費 / 雑 / 74990_諸口: 諸口 (74990), sub-account 0001
MiscAccount ==
    [section |-> ProfitLossSection,
     group |-> <<"u8ca9", "u58f2", "u7ba1", "u7406", "u8cbb">>,
     main |-> <<"u96d1">>,
     key |-> <<"7", "4", "9", "9", "0", "_", "u8af8", "u53e3">>,
     account |-> [name |-> <<"u8af8", "u53e3">>, code |-> <<"7", "4", "9", "9", "0">>,
                  subs |-> <<[code |-> <<"0", "0", "0", "1">>, name |-> Undefined]>>]]

MasterPool ==
    {TravelAccount, CashAccount, PcAccount, NumberedAccount, MiscAccount}

\* the masters of the model: up to MaxAccounts different accounts of the pool
Masters ==
    {m \in UNION {[1..n -> MasterPool] : n \in 0..MaxAccounts} :
        \A p, q \in 1..Len(m) : p # q => m[p] # m[q]}

\* the fragments item descriptions are made of:
\* X, 絵本, 写真, 駐車, 場, 紙, 家賃, 現金, 旅費交通費, 出張旅費, pc用品
Fragments ==
    {<<"X">>,
     <<"u7d75", "u672c">>,
     <<"u5199", "u771f">>,
     <<"u99d0", "u8eca">>,
     <<"u5834">>,
     <<"u7d19">>,
     <<"u5bb6", "u8cc3">>,
     <<"u73fe", "u91d1">>,
     <<"u65c5", "u8cbb", "u4ea4", "u901a", "u8cbb">>,
     <<"u51fa", "u5f35", "u65c5", "u8cbb">>,
     <<"p", "c", "u7528", "u54c1">>}

RECURSIVE Concat(_)
\* the concatenation of a sequence of strings
Concat(parts) ==
    IF parts = <<>> THEN <<>> ELSE Head(parts) \o Concat(Tail(parts))

\* the item descriptions of the model
Descriptions ==
    {Concat(parts) : parts \in UNION {[1..n -> Fragments] : n \in 0..MaxParts}}

\* a value getAccountInfo returns
Result(accountCode, accountName, subAccountCode, subAccountName) ==
    [kind |-> "result",
     accountCode |-> accountCode, accountName |-> accountName,
     subAccountCode |-> subAccountCode, subAccountName |-> subAccountName]

\* the master lookup found nothing
NotFound ==
    [kind |-> "not_found", accountCode |-> <<>>, accountName |-> <<>>,
     subAccountCode |-> <<>>, subAccountName |-> <<>>]

\* the call ended in a TypeError
Thrown ==
    [kind |-> "thrown", accountCode |-> <<>>, accountName |-> <<>>,
     subAccountCode |-> <<>>, subAccountName |-> <<>>]

\* getAccountInfo has not been called
NotCalled ==
    [kind |-> "none", accountCode |-> <<>>, accountName |-> <<>>,
     subAccountCode |-> <<>>, subAccountName |-> <<>>]

\* the value at one nesting level of an account's path (1 group, 2 main
\* account, 3 account key)
KeyAt(leaf, level) ==
    IF level = 1 THEN leaf.group ELSE IF level = 2 THEN leaf.main ELSE leaf.key

RECURSIVE TraverseLevel(_, _)
RECURSIVE TraverseKeys(_, _, _)
\* the nested for ... in loops below one section: the accounts of `leaves`
\* in the order the loops visit them
TraverseLevel(leaves, level) ==
    IF level > 3 THEN leaves
    ELSE TraverseKeys(leaves, level,
                      ForIn([k \in 1..Len(leaves) |-> KeyAt(leaves[k], level)]))

TraverseKeys(leaves, level, keys) ==
    IF keys = <<>> THEN <<>>
    ELSE LET Under(leaf) == KeyAt(leaf, level) = Head(keys)
         IN  TraverseLevel(SelectSeq(leaves, Under), level + 1)
                 \o TraverseKeys(leaves, level, Tail(keys))

\* for (const sectionKey of ["資産の部", "損益の部"]) with its guard
\* `if (!section) continue`: the accounts in the order they are visited
MasterOrder(master) ==
    LET InAssets(leaf) == leaf.section = AssetsSection
        InProfitLoss(leaf) == leaf.section = ProfitLossSection
    IN  TraverseLevel(SelectSeq(master, InAssets), 1)
            \o TraverseLevel(SelectSeq(master, InProfitLoss), 1)

\* account["勘定科目コード"] with no fallback to the key
AccountCodeWithoutFallback(leaf) == leaf.account.code

\* account["勘定科目コード"] || accountKey.split("_")[0]
AccountCode(leaf) ==
    IF leaf.account.code # <<>> THEN leaf.account.code
    ELSE SplitFirst(leaf.key, "_")

\* a name match that never reports a sub-account
NameMatchResultWithoutSubs(leaf) ==
    Result(AccountCode(leaf), leaf.account.name, <<>>, <<>>)

\* 勘定科目名一致: the result for an account whose name the description
\* contains
NameMatchResult(leaf) ==
    IF Len(leaf.account.subs) > 0
    THEN Result(AccountCode(leaf), leaf.account.name,
                leaf.account.subs[1].code, leaf.account.subs[1].name)
    ELSE Result(AccountCode(leaf), leaf.account.name, <<>>, <<>>)

RECURSIVE SubAccountMatch(_, _, _)
\* 補助科目名一致: for (const sub of account["補助科目"]), the first sub
\* whose name the description contains; sub.name.toLowerCase() throws on a
\* sub without name
SubAccountMatch(itemNameLower, leaf, subs) ==
    IF subs = <<>> THEN NotFound
    ELSE IF Head(subs).name = Undefined THEN Thrown
    ELSE IF Includes(itemNameLower, ToLowerCase(Head(subs).name))
         THEN Result(AccountCode(leaf), leaf.account.name,
                     Head(subs).code, Head(subs).name)
         ELSE SubAccountMatch(itemNameLower, leaf, Tail(subs))

\* the two tests made on one account
AccountMatch(itemNameLower, leaf) ==
    IF /\ leaf.account.name # <<>>
       /\ Includes(itemNameLower, ToLowerCase(leaf.account.name))
    THEN NameMatchResult(leaf)
    ELSE SubAccountMatch(itemNameLower, leaf, leaf.account.subs)

RECURSIVE MasterLookup(_, _)
\* 1. マスタデータからキーワード一致で探す: the first account, in visiting
\* order, that matches
MasterLookup(itemNameLower, leaves) ==
    IF leaves = <<>> THEN NotFound
    ELSE LET hit == AccountMatch(itemNameLower, Head(leaves))
         IN  IF hit # NotFound THEN hit
             ELSE MasterLookup(itemNameLower, Tail(leaves))

\* 絵本・おもちゃ・保育関連
ChildcareGroup ==
    [keywords |-> {
        <<"u7d75", "u672c">>,                              \* 絵本
        <<"u3048", "u307b", "u3093">>,                     \* えほん
        <<"u304a", "u3082", "u3061", "u3083">>,            \* おもちゃ
        <<"u30c1", "u30e7", "u30c3", "u30ad">>,            \* チョッキ
        <<"u3042", "u304a", "u3080", "u3057">>,            \* あおむし
        <<"u307b", "u3063", "u3068", "u3051", "u30fc", "u304d">>, \* ほっとけーき
        <<"u3066", "u3093", "u3077", "u3089">>,            \* てんぷら
        <<"u3082", "u3053", "u3082", "u3053">>,            \* もこもこ
        <<"u4fdd", "u80b2">>,                              \* 保育
        <<"u5b50", "u4f9b">>,                              \* 子供
        <<"u5150", "u7ae5">>,                              \* 児童
        <<"u5e7c", "u5150">>                               \* 幼児
        },
     result |->
         Result(<<"7", "2", "6", "4", "0">>,
                <<"u539f", "u4fa1", "u6d88", "u8017", "u54c1", "u8cbb">>,   \* 原価消耗品費
                <<"0", "0", "1", "3">>,
                <<"u4fdd", "u80b2", "u6750", "u6599", "u8cbb">>)   \* 保育材料費
    ]

\* 食材・食品関連
FoodGroup ==
    [keywords |-> {
        <<"u9d8f">>,                                       \* 鶏
        <<"u8c5a">>,                                       \* 豚
        <<"u8089">>,                                       \* 肉
        <<"u91ce", "u83dc">>,                              \* 野菜
        <<"u7389", "u306d", "u304e">>,                     \* 玉ねぎ
        <<"u306b", "u3093", "u3058", "u3093">>,            \* にんじん
        <<"u3058", "u3083", "u304c", "u3044", "u3082">>,   \* じゃがいも
        <<"u725b", "u4e73">>,                              \* 牛乳
        <<"u98df", "u30d1", "u30f3">>,                     \* 食パン
        <<"u5375">>,                                       \* 卵
        <<"u30d0", "u30ca", "u30ca">>,                     \* バナナ
        <<"u305b", "u3093", "u3079", "u3044">>,            \* せんべい
        <<"u30bc", "u30ea", "u30fc">>,                     \* ゼリー
        <<"u30d7", "u30ea", "u30f3">>,                     \* プリン
        <<"u9ea6", "u8336">>,                              \* 麦茶
        <<"u98df", "u6750">>,                              \* 食材
        <<"u98df", "u54c1">>,                              \* 食品
        <<"u51b7", "u51cd">>                               \* 冷凍
        },
     result |->
         Result(<<"7", "2", "1", "2", "0">>,
                <<"u4e00", "u822c", "u5546", "u54c1", "u4ed5", "u5165", "u9ad8">>,   \* 一般商品仕入高
                <<"0", "0", "0", "7">>,
                <<"u98df", "u6750", "u4ed5", "u5165">>)   \* 食材仕入
    ]

\* 写真・ビデオ撮影関連
PhotoGroup ==
    [keywords |-> {
        <<"u5199", "u771f">>,                              \* 写真
        <<"u30d3", "u30c7", "u30aa">>,                     \* ビデオ
        <<"u64ae", "u5f71">>,                              \* 撮影
        <<"u7de8", "u96c6">>,                              \* 編集
        <<"u30d5", "u30a9", "u30c8">>,                     \* フォト
        <<"u5de5", "u623f">>                               \* 工房
        },
     result |->
         Result(<<"7", "4", "5", "1", "0">>,
                <<"u5e83", "u544a", "u5ba3", "u4f1d", "u8cbb">>,   \* 広告宣伝費
                <<"0", "0", "0", "1">>,
                <<"u5e83", "u544a", "u5ba3", "u4f1d", "u8cbb">>)   \* 広告宣伝費
    ]

\* 交通費関連
TransportGroup ==
    [keywords |-> {
        <<"u4ea4", "u901a", "u8cbb">>,                     \* 交通費
        <<"u904b", "u642c">>,                              \* 運搬
        <<"u6a5f", "u6750">>,                              \* 機材
        <<"u79fb", "u52d5">>                               \* 移動
        },
     result |->
         Result(<<"7", "4", "5", "3", "0">>,
                <<"u65c5", "u8cbb", "u4ea4", "u901a", "u8cbb">>,   \* 旅費交通費
                <<"0", "0", "0", "4">>,
                <<"u51fa", "u5f35", "u65c5", "u8cbb">>)   \* 出張旅費
    ]

\* 文房具 ... 掃除 (従来ロジック)
OfficeSuppliesGroup ==
    [keywords |-> {
        <<"u6587", "u623f", "u5177">>,                     \* 文房具
        <<"u30da", "u30f3">>,                              \* ペン
        <<"u30ce", "u30fc", "u30c8">>,                     \* ノート
        <<"u7d19">>,                                       \* 紙
        <<"u30af", "u30ea", "u30c3", "u30d7">>,            \* クリップ
        <<"u30d5", "u30a1", "u30a4", "u30eb">>,            \* ファイル
        <<"u540d", "u523a">>,                              \* 名刺
        <<"u5c01", "u7b52">>,                              \* 封筒
        <<"u30b3", "u30d4", "u30fc">>,                     \* コピー
        <<"u5370", "u5237">>,                              \* 印刷
        <<"u5199", "u771f">>,                              \* 写真
        <<"u30d5", "u30a3", "u30eb", "u30e0">>,            \* フィルム
        <<"u6e05", "u6383">>,                              \* 清掃
        <<"u6383", "u9664">>                               \* 掃除
        },
     result |->
         Result(<<"7", "4", "6", "1", "0">>,
                <<"u6d88", "u8017", "u54c1", "u8cbb">>,   \* 消耗品費
                <<"0", "0", "0", "1">>,
                <<"u4e8b", "u52d9", "u7528", "u6d88", "u8017", "u54c1", "u4ee3">>)   \* 事務用消耗品代
    ]

\* 切手 ... 郵便
PostageGroup ==
    [keywords |-> {
        <<"u5207", "u624b">>,                              \* 切手
        <<"u306f", "u304c", "u304d">>,                     \* はがき
        <<"u90f5", "u9001">>,                              \* 郵送
        <<"u90f5", "u4fbf">>                               \* 郵便
        },
     result |->
         Result(<<"7", "4", "6", "2", "0">>,
                <<"u901a", "u4fe1", "u8cbb">>,   \* 通信費
                <<"0", "0", "0", "1">>,
                <<"u5207", "u624b", "u4ee3">>)   \* 切手代
    ]

\* 電話 ... 電報
TelephoneGroup ==
    [keywords |-> {
        <<"u96fb", "u8a71">>,                              \* 電話
        <<"u30d5", "u30a1", "u30c3", "u30af", "u30b9">>,   \* ファックス
        <<"u643a", "u5e2f">>,                              \* 携帯
        <<"u56de", "u7dda">>,                              \* 回線
        <<"u96fb", "u5831">>                               \* 電報
        },
     result |->
         Result(<<"7", "4", "6", "3", "0">>,
                <<"u652f", "u6255", "u96fb", "u8a71", "u6599">>,   \* 支払電話料
                <<"0", "0", "0", "1">>,
                <<"u96fb", "u8a71", "u6599">>)   \* 電話料
    ]

\* 電車 ... 旅費
CommuterGroup ==
    [keywords |-> {
        <<"u96fb", "u8eca">>,                              \* 電車
        <<"u30d0", "u30b9">>,                              \* バス
        <<"u30bf", "u30af", "u30b7", "u30fc">>,            \* タクシー
        <<"u5b9a", "u671f">>,                              \* 定期
        <<"u822a", "u7a7a", "u5238">>,                     \* 航空券
        <<"u4e57", "u8eca", "u5238">>,                     \* 乗車券
        <<"u51fa", "u5f35">>,                              \* 出張
        <<"u65c5", "u8cbb">>                               \* 旅費
        },
     result |->
         Result(<<"7", "4", "5", "3", "0">>,
                <<"u65c5", "u8cbb", "u4ea4", "u901a", "u8cbb">>,   \* 旅費交通費
                <<"0", "0", "0", "1">>,
                <<"u901a", "u52e4", "u5b9a", "u671f", "u4ee3">>)   \* 通勤定期代
    ]

\* ガソリン ... 部品
VehicleGroup ==
    [keywords |-> {
        <<"u30ac", "u30bd", "u30ea", "u30f3">>,            \* ガソリン
        <<"u6709", "u6599", "u9053", "u8def">>,            \* 有料道路
        <<"u99d0", "u8eca">>,                              \* 駐車
        <<"u8eca", "u691c">>,                              \* 車検
        <<"u90e8", "u54c1">>                               \* 部品
        },
     result |->
         Result(<<"7", "4", "5", "4", "0">>,
                <<"u8eca", "u4e21", "u8cbb">>,   \* 車両費
                <<"0", "0", "0", "1">>,
                <<"u30ac", "u30bd", "u30ea", "u30f3", "u4ee3">>)   \* ガソリン代
    ]

\* 電気 ... 燃料
UtilitiesGroup ==
    [keywords |-> {
        <<"u96fb", "u6c17">>,                              \* 電気
        <<"u6c34", "u9053">>,                              \* 水道
        <<"u30ac", "u30b9">>,                              \* ガス
        <<"u5149", "u71b1">>,                              \* 光熱
        <<"u706f", "u6cb9">>,                              \* 灯油
        <<"u71c3", "u6599">>                               \* 燃料
        },
     result |->
         Result(<<"7", "4", "3", "4", "0">>,
                <<"u6c34", "u9053", "u5149", "u71b1", "u8cbb">>,   \* 水道光熱費
                <<"0", "0", "0", "2">>,
                <<"u96fb", "u6c17", "u4ee3">>)   \* 電気代
    ]

\* 家賃 ... 土地
RentGroup ==
    [keywords |-> {
        <<"u5bb6", "u8cc3">>,                              \* 家賃
        <<"u8cc3", "u501f">>,                              \* 賃借
        <<"u99d0", "u8eca", "u5834">>,                     \* 駐車場
        <<"u571f", "u5730">>                               \* 土地
        },
     result |->
         Result(<<"7", "4", "3", "1", "0">>,
                <<"u5730", "u4ee3", "u5bb6", "u8cc3">>,   \* 地代家賃
                <<"0", "0", "0", "1">>,
                <<"u652f", "u5e97", "u4e8b", "u52d9", "u6240", "u5bb6", "u8cc3">>)   \* 支店事務所家賃
    ]

\* 手数料 ... 委託
FeesGroup ==
    [keywords |-> {
        <<"u624b", "u6570", "u6599">>,                     \* 手数料
        <<"u632f", "u8fbc">>,                              \* 振込
        <<"u5831", "u916c">>,                              \* 報酬
        <<"u9867", "u554f">>,                              \* 顧問
        <<"u76e3", "u67fb">>,                              \* 監査
        <<"u59d4", "u8a17">>                               \* 委託
        },
     result |->
         Result(<<"7", "4", "5", "9", "0">>,
                <<"u652f", "u6255", "u624b", "u6570", "u6599">>,   \* 支払手数料
                <<"0", "0", "0", "1">>,
                <<"u632f", "u8fbc", "u624b", "u6570", "u6599">>)   \* 振込手数料
    ]

\* 2. 詳細なキーワード判定, in the order of the if statements
DetailedGroups == <<ChildcareGroup, FoodGroup, PhotoGroup, TransportGroup>>

\* the generic groups with the rent group tested before the vehicle group
LegacyGroupsRentFirst ==
    <<OfficeSuppliesGroup, PostageGroup, TelephoneGroup, CommuterGroup,
      RentGroup, VehicleGroup, UtilitiesGroup, FeesGroup>>

\* 3. 既存のキーワード判定（従来ロジック）, in the order of the if statements
LegacyGroups ==
    <<OfficeSuppliesGroup, PostageGroup, TelephoneGroup, CommuterGroup,
      VehicleGroup, UtilitiesGroup, RentGroup, FeesGroup>>

\* デフォルト（消耗品費）
DefaultAccount ==
    Result(<<"7", "4", "6", "1", "0">>,
           <<"u6d88", "u8017", "u54c1", "u8cbb">>,   \* 消耗品費
           <<"0", "0", "0", "1">>,
           <<"u4e8b", "u52d9", "u7528", "u6d88", "u8017", "u54c1", "u4ee3">>)   \* 事務用消耗品代

\* the condition of one if statement: some keyword is in the description
GroupMatches(itemNameLower, group) ==
    \E keyword \in group.keywords : Includes(itemNameLower, keyword)

RECURSIVE KeywordCascade(_, _)
\* the chain of if statements: the result of the first that matches
KeywordCascade(itemNameLower, groups) ==
    IF groups = <<>> THEN NotFound
    ELSE IF GroupMatches(itemNameLower, Head(groups)) THEN Head(groups).result
    ELSE KeywordCascade(itemNameLower, Tail(groups))

\* getAccountInfo with the curated groups tested before the master
getAccountInfoKeywordsFirst(name, data) ==
    LET itemNameLower == ToLowerCase(name)
        byKeyword == KeywordCascade(itemNameLower, DetailedGroups \o LegacyGroups)
        byMaster == MasterLookup(itemNameLower, MasterOrder(data))
    IN  IF byKeyword # NotFound THEN byKeyword
        ELSE IF byMaster # NotFound THEN byMaster
        ELSE DefaultAccount

\* getAccountInfo without the final return: undefined when nothing matches
getAccountInfoWithoutDefault(name, data) ==
    LET itemNameLower == ToLowerCase(name)
        byMaster == MasterLookup(itemNameLower, MasterOrder(data))
        byKeyword == KeywordCascade(itemNameLower, DetailedGroups \o LegacyGroups)
    IN  IF byMaster # NotFound THEN byMaster
        ELSE IF byKeyword # NotFound THEN byKeyword
        ELSE NotFound

\* function getAccountInfo(itemName), `data` being the master it reads
getAccountInfo(name, data) ==
    LET itemNameLower == ToLowerCase(name)
        byMaster == MasterLookup(itemNameLower, MasterOrder(data))
        byKeyword == KeywordCascade(itemNameLower, DetailedGroups \o LegacyGroups)
    IN  IF byMaster # NotFound THEN byMaster
        ELSE IF byKeyword # NotFound THEN byKeyword
        ELSE DefaultAccount

\* ------------------------------------------------------------------------
\* Provider configuration and the LLM factory
\* ------------------------------------------------------------------------

\* JavaScript values that reach a provider-name parameter
JsString(chars) == [type |-> "string", value |-> chars]

JsNumber == [type |-> "number", value |-> <<"4", "2">>]

JsUndefined == [type |-> "undefined", value |-> <<>>]

\* a JavaScript boolean
JsBoolean(b) ==
    [type |-> "boolean",
     value |-> IF b THEN <<"t", "r", "u", "e">>
               ELSE <<"f", "a", "l", "s", "e">>]

\* !!value
Truthy(value) ==
    IF value.type = "undefined" THEN FALSE
    ELSE IF value.type = "boolean" THEN value = JsBoolean(TRUE)
    ELSE value.value # <<>>

OpenAIName == <<"o", "p", "e", "n", "a", "i">>

GeminiName == <<"g", "e", "m", "i", "n", "i">>

\* a name of Object.prototype, which every object literal inherits
ConstructorName ==
    <<"c", "o", "n", "s", "t", "r", "u", "c", "t", "o", "r">>

\* the provider names requests and callers pass
ProviderArgs ==
    {JsString(OpenAIName),
     JsString(GeminiName),
     JsString(<<"O", "p", "e", "n", "A", "I">>),
     JsString(<<"G", "E", "M", "I", "N", "I">>),
     JsString(<<"c", "l", "a", "u", "d", "e">>),
     JsString(ConstructorName),
     JsString(<<>>),
     JsNumber,
     JsUndefined}

\* the keys of LLM_CONFIG other than provider and common, in declared order
ProviderKeys == <<OpenAIName, GeminiName>>

\* no config argument (null)
NoConfig == [given |-> FALSE, apiKey |-> "", model |-> ""]

\* a config object; "" stands for a missing or empty property
Config(apiKey, model) == [given |-> TRUE, apiKey |-> apiKey, model |-> model]

\* the config arguments callers pass
CustomConfigs ==
    {NoConfig} \cup {Config(k, mdl) : k \in {"", "sk-custom"},
                                     mdl \in {"", "custom-model"}}

\* LLM_CONFIG as built from process.env: the default provider, per provider
\* the API key (missing when the variable is not set) and the model (never
\* missing: || 'gpt-4o', || 'gemini-1.5-flash'), and common.retryAttempts
Environment(provider, openaiKey, geminiKey, retryAttempts) ==
    [provider |-> provider,
     openai |-> Config(openaiKey, "gpt-4o"),
     gemini |-> Config(geminiKey, "gemini-1.5-flash"),
     retryAttempts |-> retryAttempts]

\* parseInt(process.env.LLM_RETRY_ATTEMPTS) || 3
DefaultRetryAttempts == 3

\* the environments of the model
Environments ==
    {Environment(p, ok, gk, DefaultRetryAttempts) :
        p \in {OpenAIName, GeminiName},
        ok \in {"", "sk-openai"},
        gk \in {"", "sk-gemini"}}

\* what a call that constructs a service ends in
Instance(provider, config) ==
    [kind |-> "instance", provider |-> provider, config |-> config,
     message |-> ""]

ThrownError(message) ==
    [kind |-> "thrown", provider |-> <<>>, config |-> NoConfig,
     message |-> message]

\* LLM_CONFIG[provider] for the keys a lookup can find
ConfigOf(env, provider) ==
    IF provider = OpenAIName THEN env.openai
    ELSE IF provider = GeminiName THEN env.gemini
    ELSE NoConfig

\* validateConfig(provider) of llm-config.js: TRUE when it returns, FALSE
\* when it throws (no entry for the provider, or no API key)
validateConfig(env, provider) ==
    /\ provider \in Range(ProviderKeys) \cup {ConstructorName}
    /\ ConfigOf(env, provider).apiKey # ""

\* getProviderConfig(provider): validateConfig, then LLM_CONFIG[provider]
getProviderConfig(env, provider) ==
    IF validateConfig(env, provider)
    THEN Instance(provider, ConfigOf(env, provider))
    ELSE ThrownError("API_KEY environment variable is required")

RECURSIVE FirstValid(_, _)
\* the loop of getFallbackProvider over the remaining providers
FirstValid(env, providers) ==
    IF providers = <<>> THEN <<>>
    ELSE IF validateConfig(env, Head(providers)) THEN Head(providers)
    ELSE FirstValid(env, Tail(providers))

\* getFallbackProvider(): the first provider whose validateConfig returns,
\* <<>> for null
getFallbackProvider(env) == FirstValid(env, ProviderKeys)

\* a constructor that does not validate its config
NewServiceUnvalidated(provider, config) == Instance(provider, config)

\* new OpenAIService(config) / new GeminiService(config), config an object:
\* BaseLLM's constructor calls validateConfig() of the subclass
NewService(provider, config) ==
    IF config.apiKey = "" THEN ThrownError("API key is required")
    ELSE IF config.model = "" THEN ThrownError("model is required")
    ELSE Instance(provider, config)

\* new OpenAIService(config) / new GeminiService(config) as a caller writes
\* it: config || getProviderConfig(provider)
Construct(env, provider, config) ==
    IF config.given THEN NewService(provider, config)
    ELSE LET fromEnv == getProviderConfig(env, provider)
         IN  IF fromEnv.kind = "thrown" THEN fromEnv
             ELSE NewService(provider, fromEnv.config)

\* this.SERVICE_CLASSES[normalizedProvider]: the class registered under the
\* name, the inherited Object for "constructor", nothing otherwise
ServiceClass(normalizedProvider) ==
    IF normalizedProvider \in Range(ProviderKeys) THEN "service"
    ELSE IF normalizedProvider = ConstructorName THEN "Object"
    ELSE "undefined"

\* LLMFactory.createLLM(provider, config)
createLLM(env, provider, config) ==
    IF ~Truthy(provider) \/ provider.type # "string"
    THEN ThrownError("Provider name is required and must be a string")
    ELSE LET normalizedProvider == ToLowerCase(provider.value)
             fromEnv == getProviderConfig(env, normalizedProvider)
         IN  IF ServiceClass(normalizedProvider) = "undefined"
             THEN ThrownError("Unsupported provider")
             ELSE IF ~config.given /\ fromEnv.kind = "thrown" THEN fromEnv
             ELSE IF ServiceClass(normalizedProvider) = "Object"
             THEN ThrownError("service.getProviderName is not a function")
             ELSE NewService(normalizedProvider,
                             IF config.given THEN config ELSE fromEnv.config)

\* LLMFactory.createDefaultLLM()
createDefaultLLM(env) == createLLM(env, JsString(env.provider), NoConfig)

\* LLMFactory.createLLMWithFallback(primaryProvider, config)
createLLMWithFallback(env, primaryProvider, config) ==
    LET primary == createLLM(env, primaryProvider, config)
        fallbackProvider == getFallbackProvider(env)
    IN  IF primary.kind = "instance" THEN primary
        ELSE IF fallbackProvider = <<>>
        THEN ThrownError("No available LLM providers")
        ELSE createLLM(env, JsString(fallbackProvider), config)


\* ------------------------------------------------------------------------
\* The providers: health check, error categories, response normalisation
\* ------------------------------------------------------------------------

\* what the probe request of a health check ends in: the request throws, or
\* the provider answers with one completion of some text
ProbeThrows == [answered |-> FALSE, text |-> <<>>]

ProbeAnswers(text) == [answered |-> TRUE, text |-> text]

Probes ==
    {ProbeThrows, ProbeAnswers(<<"H", "i">>), ProbeAnswers(<<>>)}

\* OpenAIService.healthCheck():
\* return response && response.choices && response.choices.length > 0
OpenAIHealthCheck(probe) ==
    IF probe.answered THEN JsBoolean(TRUE) ELSE JsBoolean(FALSE)

\* GeminiService.healthCheck(): return response && response.text()
GeminiHealthCheck(probe) ==
    IF probe.answered THEN JsString(probe.text) ELSE JsBoolean(FALSE)

\* service.healthCheck() of an instance
healthCheck(service, probe) ==
    IF service.provider = OpenAIName THEN OpenAIHealthCheck(probe)
    ELSE GeminiHealthCheck(probe)

\* getProviderName()
getProviderName(provider) ==
    IF provider = OpenAIName THEN <<"O", "p", "e", "n", "A", "I">>
    ELSE <<"G", "e", "m", "i", "n", "i">>

\* the messages of the Errors BaseLLM.handleError returns, after the
\* provider name
BaseMessage ==
     \* のAPIキーが無効または設定されていません
    [authentication |->
         <<"u306e", "A", "P", "I", "u30ad", "u30fc", "u304c", "u7121",
         "u52b9", "u307e", "u305f", "u306f", "u8a2d", "u5b9a", "u3055",
         "u308c", "u3066", "u3044", "u307e", "u305b", "u3093">>,
     \* の利用制限に達しました。しばらく待ってから再試行してください
     rateLimit |->
         <<"u306e", "u5229", "u7528", "u5236", "u9650", "u306b", "u9054",
         "u3057", "u307e", "u3057", "u305f", "u3002", "u3057", "u3070",
         "u3089", "u304f", "u5f85", "u3063", "u3066", "u304b", "u3089",
         "u518d", "u8a66", "u884c", "u3057", "u3066", "u304f", "u3060",
         "u3055", "u3044">>,
     \* への接続に失敗しました。ネットワーク接続を確認してください
     network |->
         <<"u3078", "u306e", "u63a5", "u7d9a", "u306b", "u5931", "u6557",
         "u3057", "u307e", "u3057", "u305f", "u3002", "u30cd", "u30c3",
         "u30c8", "u30ef", "u30fc", "u30af", "u63a5", "u7d9a", "u3092",
         "u78ba", "u8a8d", "u3057", "u3066", "u304f", "u3060", "u3055",
         "u3044">>,
     \* での
     unclassified1 |->
         <<"u3067", "u306e">>,
     \* 処理中にエラーが発生しました:
     unclassified2 |->
         <<"u51e6", "u7406", "u4e2d", "u306b", "u30a8", "u30e9", "u30fc",
         "u304c", "u767a", "u751f", "u3057", "u307e", "u3057", "u305f",
         ":", " ">>]

\* the messages of the Errors GeminiService.handleError adds
GeminiMessage ==
     \* Geminiの安全性フィルターにより処理がブロックされました。別の画像を試してください。
    [safety |->
         <<"G", "e", "m", "i", "n", "i", "u306e", "u5b89", "u5168", "u6027",
         "u30d5", "u30a3", "u30eb", "u30bf", "u30fc", "u306b", "u3088",
         "u308a", "u51e6", "u7406", "u304c", "u30d6", "u30ed", "u30c3",
         "u30af", "u3055", "u308c", "u307e", "u3057", "u305f", "u3002",
         "u5225", "u306e", "u753b", "u50cf", "u3092", "u8a66", "u3057",
         "u3066", "u304f", "u3060", "u3055", "u3044", "u3002">>,
     \* Geminiの利用制限に達しました。しばらく待ってから再試行してください。
     quota |->
         <<"G", "e", "m", "i", "n", "i", "u306e", "u5229", "u7528", "u5236",
         "u9650", "u306b", "u9054", "u3057", "u307e", "u3057", "u305f",
         "u3002", "u3057", "u3070", "u3089", "u304f", "u5f85", "u3063",
         "u3066", "u304b", "u3089", "u518d", "u8a66", "u884c", "u3057",
         "u3066", "u304f", "u3060", "u3055", "u3044", "u3002">>,
     \* Gemini APIへのアクセス権限がありません。APIキーを確認してください。
     permission |->
         <<"G", "e", "m", "i", "n", "i", " ", "A", "P", "I", "u3078",
         "u306e", "u30a2", "u30af", "u30bb", "u30b9", "u6a29", "u9650",
         "u304c", "u3042", "u308a", "u307e", "u305b", "u3093", "u3002",
         "A", "P", "I", "u30ad", "u30fc", "u3092", "u78ba", "u8a8d",
         "u3057", "u3066", "u304f", "u3060", "u3055", "u3044", "u3002">>]

\* the operation names processImage and processText pass
Operation ==
    [image |->
         <<"i", "m", "a", "g", "e", " ", "p", "r", "o", "c", "e", "s", "s",
         "i", "n", "g">>,
     text |->
         <<"t", "e", "x", "t", " ", "p", "r", "o", "c", "e", "s", "s", "i",
         "n", "g">>]

Operations == {Operation.image, Operation.text}

\* the Error handleError returns, with the category its message stands for
CategoryError(category, message) == [category |-> category, message |-> message]

\* the markers BaseLLM.handleError tests
BaseMarker ==
    [apiKey |->
         <<"A", "P", "I", " ", "k", "e", "y">>,
     authentication |->
         <<"a", "u", "t", "h", "e", "n", "t", "i", "c", "a", "t", "i", "o",
         "n">>,
     quota |->
         <<"q", "u", "o", "t", "a">>,
     rateLimit |->
         <<"r", "a", "t", "e", " ", "l", "i", "m", "i", "t">>,
     network |->
         <<"n", "e", "t", "w", "o", "r", "k">>,
     timeout |->
         <<"t", "i", "m", "e", "o", "u", "t">>]

\* BaseLLM.handleError with the network test before the quota test
BaseHandleErrorNetworkFirst(providerName, message, operation) ==
    IF Includes(message, BaseMarker.apiKey)
       \/ Includes(message, BaseMarker.authentication)
    THEN CategoryError("authentication", providerName \o BaseMessage.authentication)
    ELSE IF Includes(message, BaseMarker.network)
            \/ Includes(message, BaseMarker.timeout)
    THEN CategoryError("network", providerName \o BaseMessage.network)
    ELSE IF Includes(message, BaseMarker.quota)
            \/ Includes(message, BaseMarker.rateLimit)
    THEN CategoryError("rate-limit", providerName \o BaseMessage.rateLimit)
    ELSE CategoryError("unclassified",
            providerName \o BaseMessage.unclassified1 \o operation
                \o BaseMessage.unclassified2 \o message)

\* BaseLLM.handleError(error, operation), message being error.message
BaseHandleError(providerName, message, operation) ==
    IF Includes(message, BaseMarker.apiKey)
       \/ Includes(message, BaseMarker.authentication)
    THEN CategoryError("authentication", providerName \o BaseMessage.authentication)
    ELSE IF Includes(message, BaseMarker.quota)
            \/ Includes(message, BaseMarker.rateLimit)
    THEN CategoryError("rate-limit", providerName \o BaseMessage.rateLimit)
    ELSE IF Includes(message, BaseMarker.network)
            \/ Includes(message, BaseMarker.timeout)
    THEN CategoryError("network", providerName \o BaseMessage.network)
    ELSE CategoryError("unclassified",
            providerName \o BaseMessage.unclassified1 \o operation
                \o BaseMessage.unclassified2 \o message)

\* the markers GeminiService.handleError tests
GeminiMarker ==
    [safety |->
         <<"S", "A", "F", "E", "T", "Y">>,
     quotaExceeded |->
         <<"Q", "U", "O", "T", "A", "_", "E", "X", "C", "E", "E", "D", "E",
         "D">>,
     permissionDenied |->
         <<"P", "E", "R", "M", "I", "S", "S", "I", "O", "N", "_", "D", "E",
         "N", "I", "E", "D">>]

\* GeminiService.handleError(error, operation)
GeminiHandleError(message, operation) ==
    LET baseError ==
            BaseHandleError(getProviderName(GeminiName), message, operation)
    IN  IF Includes(message, GeminiMarker.safety)
        THEN CategoryError("safety", GeminiMessage.safety)
        ELSE IF Includes(message, GeminiMarker.quotaExceeded)
        THEN CategoryError("quota-exceeded", GeminiMessage.quota)
        ELSE IF Includes(message, GeminiMarker.permissionDenied)
        THEN CategoryError("permission-denied", GeminiMessage.permission)
        ELSE baseError

\* this.handleError(error, operation) of a provider
handleError(provider, message, operation) ==
    IF provider = GeminiName THEN GeminiHandleError(message, operation)
    ELSE BaseHandleError(getProviderName(provider), message, operation)

\* the words error messages of the provider libraries are made of
ErrorWords ==
    {BaseMarker.apiKey,
     BaseMarker.authentication,
     BaseMarker.quota,
     BaseMarker.rateLimit,
     BaseMarker.network,
     BaseMarker.timeout,
     GeminiMarker.safety,
     GeminiMarker.quotaExceeded,
     GeminiMarker.permissionDenied,
     <<"E", "C", "O", "N", "N">>}

\* the bound on the number of words of an error message
MaxWords == 2

\* the error messages of the model
ErrorTexts ==
    {Concat(parts) : parts \in UNION {[1..n -> ErrorWords] : n \in 0..MaxWords}}

\* ------------------------------------------------------------------------
\* normalizeResponse: code fences and JSON.parse
\* ------------------------------------------------------------------------

\* the white space String.prototype.trim, \s and JSON.parse skip, as far as
\* the texts of the model contain it (nl: the line feed)
WhiteSpace == {" ", "nl"}

RECURSIVE TrimStart(_)
\* the string without its leading white space
TrimStart(s) ==
    IF s # <<>> /\ Head(s) \in WhiteSpace THEN TrimStart(Tail(s)) ELSE s

RECURSIVE TrimEnd(_)
\* the string without its trailing white space
TrimEnd(s) ==
    IF s # <<>> /\ s[Len(s)] \in WhiteSpace
    THEN TrimEnd(SubSeq(s, 1, Len(s) - 1))
    ELSE s

\* String.prototype.trim
Trim(s) == TrimEnd(TrimStart(s))

\* String.prototype.startsWith
StartsWith(s, t) == Len(s) >= Len(t) /\ SubSeq(s, 1, Len(t)) = t

\* String.prototype.endsWith
EndsWith(s, t) ==
    Len(s) >= Len(t) /\ SubSeq(s, Len(s) - Len(t) + 1, Len(s)) = t

\* the code fence, three backticks
Fence == <<"u0060", "u0060", "u0060">>

\* the opening fence of a json block
JsonFence == Fence \o <<"j", "s", "o", "n">>

\* the fence removal that forgets the closing fence
StripFencesOpeningOnly(content) ==
    LET c1 == IF StartsWith(content, JsonFence)
              THEN TrimStart(SubSeq(content, Len(JsonFence) + 1, Len(content)))
              ELSE content
    IN  IF StartsWith(c1, Fence)
        THEN TrimStart(SubSeq(c1, Len(Fence) + 1, Len(c1)))
        ELSE c1

\* コードブロックを除去: the three replace() calls, each under its
\* startsWith / endsWith test: the opening json fence with the white space
\* after it, the opening fence with the white space after it, the closing
\* fence with the white space before it
StripFences(content) ==
    LET c1 == IF StartsWith(content, JsonFence)
              THEN TrimStart(SubSeq(content, Len(JsonFence) + 1, Len(content)))
              ELSE content
        c2 == IF StartsWith(c1, Fence)
              THEN TrimStart(SubSeq(c1, Len(Fence) + 1, Len(c1)))
              ELSE c1
    IN  IF EndsWith(c2, Fence)
        THEN TrimEnd(SubSeq(c2, 1, Len(c2) - Len(Fence)))
        ELSE c2

\* JSON.parse: a parsed value is written as the text of the value without
\* the white space between its tokens; pos is the position after the value
Parsed(pos, out) == [ok |-> TRUE, pos |-> pos, out |-> out]

SyntaxError == [ok |-> FALSE, pos |-> 0, out |-> <<>>]

RECURSIVE SkipWs(_, _)
\* the first position from i on that holds no white space
SkipWs(s, i) ==
    IF i <= Len(s) /\ s[i] \in WhiteSpace THEN SkipWs(s, i + 1) ELSE i

RECURSIVE ClosingQuote(_, _)
\* the position of the quote that ends a string literal, 0 if there is none
\* before the end or before a control character
ClosingQuote(s, j) ==
    IF j > Len(s) \/ s[j] = "nl" THEN 0
    ELSE IF s[j] = "\"" THEN j
    ELSE ClosingQuote(s, j + 1)

RECURSIVE DigitsEnd(_, _)
\* the position after the digits that start at j
DigitsEnd(s, j) ==
    IF j <= Len(s) /\ IsDigit(s[j]) THEN DigitsEnd(s, j + 1) ELSE j

\* the text t stands at position i of s
StandsAt(s, i, t) ==
    i + Len(t) - 1 <= Len(s) /\ SubSeq(s, i, i + Len(t) - 1) = t

\* a string literal at position i
ParseString(s, i) ==
    LET j == ClosingQuote(s, i + 1)
    IN  IF j = 0 THEN SyntaxError ELSE Parsed(j + 1, SubSeq(s, i, j))

\* a number at position i: 0, or digits that do not start with 0
ParseNumber(s, i) ==
    LET j == IF s[i] = "0" THEN i + 1 ELSE DigitsEnd(s, i)
    IN  Parsed(j, SubSeq(s, i, j - 1))

\* the literals true, false and null
Literals ==
    {<<"t", "r", "u", "e">>, <<"f", "a", "l", "s", "e">>,
     <<"n", "u", "l", "l">>}

RECURSIVE ParseValue(_, _)
RECURSIVE ParseElements(_, _, _)
RECURSIVE ParseMembers(_, _, _)
\* a value at or after position i
ParseValue(s, i) ==
    LET j == SkipWs(s, i)
    IN  IF j > Len(s) THEN SyntaxError
        ELSE IF s[j] = "\"" THEN ParseString(s, j)
        ELSE IF IsDigit(s[j]) THEN ParseNumber(s, j)
        ELSE IF \E t \in Literals : StandsAt(s, j, t)
        THEN LET t == CHOOSE t \in Literals : StandsAt(s, j, t)
             IN  Parsed(j + Len(t), t)
        ELSE IF s[j] = "["
        THEN LET k == SkipWs(s, j + 1)
             IN  IF k <= Len(s) /\ s[k] = "]"
                 THEN Parsed(k + 1, <<"[", "]">>)
                 ELSE ParseElements(s, j + 1, <<"[">>)
        ELSE IF s[j] = "{"
        THEN LET k == SkipWs(s, j + 1)
             IN  IF k <= Len(s) /\ s[k] = "}"
                 THEN Parsed(k + 1, <<"{", "}">>)
                 ELSE ParseMembers(s, j + 1, <<"{">>)
        ELSE SyntaxError

\* the elements of an array from position i on, up to its closing bracket
ParseElements(s, i, acc) ==
    LET v == ParseValue(s, i)
        j == SkipWs(s, v.pos)
    IN  IF ~v.ok \/ j > Len(s) THEN SyntaxError
        ELSE IF s[j] = "," THEN ParseElements(s, j + 1, acc \o v.out \o <<",">>)
        ELSE IF s[j] = "]" THEN Parsed(j + 1, acc \o v.out \o <<"]">>)
        ELSE SyntaxError

\* the members of an object from position i on, up to its closing brace
ParseMembers(s, i, acc) ==
    LET k == SkipWs(s, i)
        key == IF k <= Len(s) /\ s[k] = "\"" THEN ParseString(s, k)
               ELSE SyntaxError
        c == SkipWs(s, key.pos)
        v == ParseValue(s, c + 1)
        j == SkipWs(s, v.pos)
    IN  IF ~key.ok \/ c > Len(s) THEN SyntaxError
        ELSE IF s[c] # ":" THEN SyntaxError
        ELSE IF ~v.ok \/ j > Len(s) THEN SyntaxError
        ELSE IF s[j] = ","
        THEN ParseMembers(s, j + 1, acc \o key.out \o <<":">> \o v.out \o <<",">>)
        ELSE IF s[j] = "}"
        THEN Parsed(j + 1, acc \o key.out \o <<":">> \o v.out \o <<"}">>)
        ELSE SyntaxError

\* JSON.parse(content): one value, white space around it, nothing else
JSONParse(content) ==
    LET v == ParseValue(content, 1)
    IN  IF v.ok /\ SkipWs(content, v.pos) = Len(content) + 1 THEN v
        ELSE SyntaxError

\* what normalizeResponse and processImage end in
ParsedResponse(value) ==
    [kind |-> "parsed", value |-> value, message |-> <<>>]

ThrownResponse(message) ==
    [kind |-> "thrown", value |-> <<>>, message |-> message]

\* the words normalizeResponse looks for in content that is no JSON
ResponseMarker ==
     \* 申し訳ありませんが
    [apology1 |->
         <<"u7533", "u3057", "u8a33", "u3042", "u308a", "u307e", "u305b",
         "u3093", "u304c">>,
     \* 申し訳ございません
     apology2 |->
         <<"u7533", "u3057", "u8a33", "u3054", "u3056", "u3044", "u307e",
         "u305b", "u3093">>,
     \* エラー
     errorKatakana |->
         <<"u30a8", "u30e9", "u30fc">>,
     errorWord |->
         <<"e", "r", "r", "o", "r">>]

\* the messages of the Errors normalizeResponse throws
ResponseMessage ==
     \* 画像が不鮮明または読み取れませんでした。より鮮明な画像をアップロードしてください。
    [unreadable |->
         <<"u753b", "u50cf", "u304c", "u4e0d", "u9bae", "u660e", "u307e",
         "u305f", "u306f", "u8aad", "u307f", "u53d6", "u308c", "u307e",
         "u305b", "u3093", "u3067", "u3057", "u305f", "u3002", "u3088",
         "u308a", "u9bae", "u660e", "u306a", "u753b", "u50cf", "u3092",
         "u30a2", "u30c3", "u30d7", "u30ed", "u30fc", "u30c9", "u3057",
         "u3066", "u304f", "u3060", "u3055", "u3044", "u3002">>,
     \* 画像処理中にエラーが発生しました:
     processingError |->
         <<"u753b", "u50cf", "u51e6", "u7406", "u4e2d", "u306b", "u30a8",
         "u30e9", "u30fc", "u304c", "u767a", "u751f", "u3057", "u307e",
         "u3057", "u305f", ":", " ">>,
     \* 画像から情報を抽出できませんでした。領収書が鮮明に写っているか確認してください。
     notExtracted |->
         <<"u753b", "u50cf", "u304b", "u3089", "u60c5", "u5831", "u3092",
         "u62bd", "u51fa", "u3067", "u304d", "u307e", "u305b", "u3093",
         "u3067", "u3057", "u305f", "u3002", "u9818", "u53ce", "u66f8",
         "u304c", "u9bae", "u660e", "u306b", "u5199", "u3063", "u3066",
         "u3044", "u308b", "u304b", "u78ba", "u8a8d", "u3057", "u3066",
         "u304f", "u3060", "u3055", "u3044", "u3002">>]

\* content.substring(0, n)
Substring0(content, n) ==
    SubSeq(content, 1, IF Len(content) < n THEN Len(content) ELSE n)

\* the catch (parseError) block: the Error thrown for content that is no JSON
ParseFailure(content) ==
    IF Includes(content, ResponseMarker.apology1) \/ Includes(content, ResponseMarker.apology2)
    THEN ThrownResponse(ResponseMessage.unreadable)
    ELSE IF Includes(content, ResponseMarker.errorKatakana) \/ Includes(content, ResponseMarker.errorWord)
    THEN ThrownResponse(ResponseMessage.processingError \o Substring0(content, 100))
    ELSE ThrownResponse(ResponseMessage.notExtracted)

\* OpenAIService.normalizeResponse(rawResponse)
normalizeResponse(rawResponse) ==
    LET content == StripFences(Trim(rawResponse))
        parsedResponse == JSONParse(content)
    IN  IF parsedResponse.ok THEN ParsedResponse(parsedResponse.out)
        ELSE ParseFailure(content)

\* GeminiService.normalizeResponse(rawResponse)
GeminiNormalizeResponse(rawResponse) ==
    LET content == StripFences(Trim(rawResponse))
        parsedResponse == JSONParse(content)
    IN  IF parsedResponse.ok THEN ParsedResponse(parsedResponse.out)
        ELSE ParseFailure(content)

\* this.normalizeResponse(content) of a provider
NormalizeResponseOf(provider, rawResponse) ==
    IF provider = GeminiName THEN GeminiNormalizeResponse(rawResponse)
    ELSE normalizeResponse(rawResponse)

\* the pieces the response texts of the model are made of
ResponsePieces ==
    {<<"[">>, <<"]">>, <<"1">>, <<"\"">>, <<" ">>, <<"{">>, <<"}">>,
     Fence,
     <<"j", "s", "o", "n">>,
     ResponseMarker.errorWord,
     BaseMarker.timeout,
     ResponseMarker.apology1}

\* the bound on the number of pieces of a response text
MaxPieces == 3

\* the response texts of the model
Responses ==
    {Concat(parts) :
        parts \in UNION {[1..n -> ResponsePieces] : n \in 0..MaxPieces}}

\* what the request a provider sends ends in: it throws an Error with a
\* message, or the model answers with a text
RequestThrows(message) == [threw |-> TRUE, text |-> message]

RequestAnswers(text) == [threw |-> FALSE, text |-> text]

\* no Error
NoError == CategoryError("none", <<>>)

\* what processImage ends in: the parsed response, or the Error it throws
ImageResult(normalized, error) ==
    [kind |-> IF error = NoError THEN "parsed" ELSE "thrown",
     value |-> normalized.value,
     error |-> error]

\* processImage(imageBuffer, prompt) of a provider: the request, then
\* normalizeResponse, and in the catch block throw this.handleError(error)
processImage(provider, outcome) ==
    IF outcome.threw
    THEN ImageResult(ThrownResponse(outcome.text),
                     handleError(provider, outcome.text, Operation.image))
    ELSE LET normalized == NormalizeResponseOf(provider, Trim(outcome.text))
         IN  IF normalized.kind = "parsed" THEN ImageResult(normalized, NoError)
             ELSE ImageResult(normalized,
                              handleError(provider, normalized.message,
                                          Operation.image))

\* let llmService; before it is assigned
NoService ==
    [kind |-> "none", provider |-> <<>>, config |-> NoConfig, message |-> ""]

\* nothing invoked yet, nothing returned yet
NoCall == [op |-> "none"]

\* the environment the batch runner is studied in
DefaultEnvironment ==
    Environment(OpenAIName, "sk-openai", "", DefaultRetryAttempts)

\* server.js start-up with environment env: llmService is the default
\* provider's instance (the process exits when it cannot be built)
ServerStarted(env) ==
    /\ createDefaultLLM(env).kind = "instance"
    /\ LLM_CONFIG = env
    /\ llmService = createDefaultLLM(env)
    /\ invoked = NoCall
    /\ returned = NoCall

\* processReceiptOCR with a retry loop of LLM_CONFIG.common.retryAttempts
CallsPerItemRetrying(env) == env.retryAttempts

\* the number of llmService.processImage calls one processReceiptOCR call
\* makes: one, whatever LLM_CONFIG.common says
CallsPerItem(env) == 1

\* ------------------------------------------------------------------------
\* Initial state: the server after start-up
\* ------------------------------------------------------------------------

Init ==
    /\ fileStorage = <<>>
    /\ nextFileId = 1
    /\ phase = [r \in Requests |-> "idle"]
    /\ batchFiles = [r \in Requests |-> <<>>]
    /\ promise = [r \in Requests |-> <<>>]
    /\ semaphore = [r \in Requests |-> NewSemaphore(MAX_CONCURRENT)]
    /\ expired = [r \in Requests |-> {}]
    /\ admitLog = [r \in Requests |-> <<>>]
    /\ waited = [r \in Requests |-> {}]
    /\ receiptData = [r \in Requests |-> <<>>]
    /\ errors = [r \in Requests |-> <<>>]
    /\ response = [r \in Requests |-> "none"]
    /\ calls = [r \in Requests |-> <<>>]
    /\ servedBy = [r \in Requests |-> <<>>]
    /\ firstSettled = [r \in Requests |-> 0]
    /\ ACCOUNT_DATA = <<>>
    /\ itemName = <<>>
    /\ accountInfo = NotCalled
    /\ ServerStarted(DefaultEnvironment)

\* ------------------------------------------------------------------------
\* The upload store
\* ------------------------------------------------------------------------

\* POST /api/upload with a file: fileStorage.set(fileId, ...)
Upload ==
    /\ nextFileId <= MaxFiles
    /\ fileStorage' = Append(fileStorage, nextFileId)
    /\ nextFileId' = nextFileId + 1
    /\ UNCHANGED <<batchVars, classifyVars, llmVars>>

\* POST /api/delete-file with the id of a stored file
DeleteFile(id) ==
    /\ id \in Range(fileStorage)
    /\ fileStorage' = SelectSeqBy(fileStorage, {id})
    /\ UNCHANGED <<nextFileId, batchVars, classifyVars, llmVars>>

\* POST /api/clear-files
ClearFiles ==
    /\ fileStorage # <<>>
    /\ fileStorage' = <<>>
    /\ UNCHANGED <<nextFileId, batchVars, classifyVars, llmVars>>

\* ------------------------------------------------------------------------
\* POST /api/batch-process
\* ------------------------------------------------------------------------

\* the handler without its test for an empty store: the semaphore is built,
\* Promise.allSettled([]) settles at once and no receipt is found
BatchWithoutEmptyCheck(r) ==
    /\ phase[r] = "idle"
    /\ Len(fileStorage) = 0
    /\ phase' = [phase EXCEPT ![r] = "responded"]
    /\ response' = [response EXCEPT ![r] = ResponseOf(<<>>)]
    /\ UNCHANGED <<classifyVars, llmVars, storeVars, batchFiles, promise,
                   semaphore, expired, admitLog, waited, receiptData, errors,
                   calls, servedBy, firstSettled>>

\* the request arrives at an empty store: 400, nothing else happens
BatchRejected(r) ==
    /\ phase[r] = "idle"
    /\ Len(fileStorage) = 0
    /\ phase' = [phase EXCEPT ![r] = "responded"]
    /\ response' = [response EXCEPT ![r] = "400"]
    /\ UNCHANGED <<classifyVars, llmVars, storeVars, batchFiles, promise,
                   semaphore, expired, admitLog, waited, receiptData, errors,
                   calls, servedBy, firstSettled>>

\* no extraction call was started for the item yet
NoProvider == <<>>

\* the provider of the first call of the batch
ServingProviderAtSubmission(r) ==
    IF servedBy[r] = <<>> THEN llmService.provider ELSE servedBy[r][1]

\* processReceiptOCR reads the module variable llmService when it makes its
\* call: the provider the call is made on
ServingProvider(r) == llmService.provider

\* the request arrives at a non-empty store: the semaphore is built, every
\* entry calls acquire() in store order, the admitted ones start their
\* extraction call, and the handler awaits Promise.allSettled
BatchStart(r) ==
    /\ phase[r] = "idle"
    /\ Len(fileStorage) > 0
    /\ LET n == Len(fileStorage)
           a == AcquireAll(NewSemaphore(MAX_CONCURRENT), 1, n)
       IN  /\ semaphore' = [semaphore EXCEPT ![r] = a.sem]
           /\ promise' = [promise EXCEPT ![r] =
                 [i \in 1..n |-> IF i \in a.queued THEN AtAcquire ELSE AtCall]]
           /\ admitLog' = [admitLog EXCEPT ![r] = a.admitted]
           /\ waited' = [waited EXCEPT ![r] = a.queued]
           /\ calls' = [calls EXCEPT ![r] =
                 [i \in 1..n |-> IF i \in a.queued THEN 0
                                 ELSE CallsPerItem(LLM_CONFIG)]]
           /\ servedBy' = [servedBy EXCEPT ![r] =
                 [i \in 1..n |-> IF i \in a.queued THEN NoProvider
                                 ELSE ServingProvider(r)]]
    /\ batchFiles' = [batchFiles EXCEPT ![r] = fileStorage]
    /\ phase' = [phase EXCEPT ![r] = "running"]
    /\ UNCHANGED <<classifyVars, llmVars, storeVars, expired, receiptData, errors,
                   response, firstSettled>>

\* item i's promise settles as `outcome`; the finally block releases the
\* slot, the woken waiter starts its call, and when this was the last
\* pending promise the handler classifies the results and responds
Finish(r, i, outcome) ==
    LET woken == ReleaseWakes(semaphore[r])
        p1 == [promise[r] EXCEPT ![i] = outcome]
        p2 == IF woken = 0 THEN p1 ELSE [p1 EXCEPT ![woken] = AtCall]
    IN  /\ semaphore' = [semaphore EXCEPT ![r] = Release(@)]
        /\ promise' = [promise EXCEPT ![r] = p2]
        /\ admitLog' = [admitLog EXCEPT ![r] =
                           IF woken = 0 THEN @ ELSE Append(@, woken)]
        /\ expired' = [expired EXCEPT ![r] = @ \ {i}]
        /\ calls' = [calls EXCEPT ![r] =
                        IF woken = 0 THEN @
                        ELSE [@ EXCEPT ![woken] = @ + CallsPerItem(LLM_CONFIG)]]
        /\ servedBy' = [servedBy EXCEPT ![r] =
                           IF woken = 0 THEN @
                           ELSE [@ EXCEPT ![woken] = ServingProvider(r)]]
        /\ firstSettled' = [firstSettled EXCEPT ![r] = IF @ = 0 THEN i ELSE @]
        /\ IF Settled(p2)
           THEN /\ receiptData' = [receiptData EXCEPT ![r] = ReceiptsOf(p2)]
                /\ errors' = [errors EXCEPT ![r] = ErrorsOf(p2, 0)]
                /\ response' = [response EXCEPT ![r] = ResponseOf(ReceiptsOf(p2))]
                /\ phase' = [phase EXCEPT ![r] = "responded"]
           ELSE UNCHANGED <<receiptData, errors, response, phase>>
        /\ UNCHANGED <<classifyVars, llmVars, storeVars, batchFiles, waited>>

\* the extraction call of item i returns parsed JSON
CallReturns(r, i) ==
    /\ phase[r] = "running"
    /\ i \in InFlight(r)
    /\ \E hasAmount \in ReceiptKinds :
          Finish(r, i, ReturnSuccess(batchFiles[r][i], hasAmount))

\* the extraction call of item i throws an Error
CallThrows(r, i) ==
    /\ phase[r] = "running"
    /\ i \in InFlight(r)
    /\ \E message \in ErrorMessages :
          Finish(r, i, CatchError(batchFiles[r][i], message))

\* the configured timeout (LLM_CONFIG.<provider>.timeout) elapses while the
\* call of item i is in flight; the providers never hand the timeout to
\* their client, so nothing in the program reacts
TimeoutElapses(r, i) ==
    /\ phase[r] = "running"
    /\ i \in InFlight(r)
    /\ i \notin expired[r]
    /\ expired' = [expired EXCEPT ![r] = @ \cup {i}]
    /\ UNCHANGED <<classifyVars, llmVars, storeVars, phase, batchFiles, promise,
                   semaphore, admitLog, waited, receiptData, errors, response,
                   calls, servedBy, firstSettled>>

Items == 1..(MaxFiles + 1)

Next ==
    \/ Upload
    \/ \E id \in 1..(MaxFiles + 1) : DeleteFile(id)
    \/ ClearFiles
    \/ \E r \in SingleRequest : BatchRejected(r)
    \/ \E r \in SingleRequest : BatchStart(r)
    \/ \E r \in SingleRequest, i \in Items : CallReturns(r, i)
    \/ \E r \in SingleRequest, i \in Items : CallThrows(r, i)
    \/ \E r \in SingleRequest, i \in Items : TimeoutElapses(r, i)

Spec == Init /\ [][Next]_vars

\* a call in flight returns or throws
CallCompletes ==
    \E r \in SingleRequest, i \in Items : CallReturns(r, i) \/ CallThrows(r, i)

\* The server with some files uploaded and no request made yet.
InitUploaded ==
    /\ \E n \in 0..MaxFiles :
          /\ fileStorage = [k \in 1..n |-> k]
          /\ nextFileId = n + 1
    /\ phase = [r \in Requests |-> "idle"]
    /\ batchFiles = [r \in Requests |-> <<>>]
    /\ promise = [r \in Requests |-> <<>>]
    /\ semaphore = [r \in Requests |-> NewSemaphore(MAX_CONCURRENT)]
    /\ expired = [r \in Requests |-> {}]
    /\ admitLog = [r \in Requests |-> <<>>]
    /\ waited = [r \in Requests |-> {}]
    /\ receiptData = [r \in Requests |-> <<>>]
    /\ errors = [r \in Requests |-> <<>>]
    /\ response = [r \in Requests |-> "none"]
    /\ calls = [r \in Requests |-> <<>>]
    /\ servedBy = [r \in Requests |-> <<>>]
    /\ firstSettled = [r \in Requests |-> 0]
    /\ ACCOUNT_DATA = <<>>
    /\ itemName = <<>>
    /\ accountInfo = NotCalled
    /\ ServerStarted(DefaultEnvironment)

\* one batch-process request on a store that is left alone meanwhile
NextBatch ==
    \/ \E r \in SingleRequest : BatchRejected(r)
    \/ \E r \in SingleRequest : BatchStart(r)
    \/ \E r \in SingleRequest, i \in Items : CallReturns(r, i)
    \/ \E r \in SingleRequest, i \in Items : CallThrows(r, i)

\* extraction calls in flight keep completing: while one is in flight, one
\* of them eventually returns or throws
FairSpec == InitUploaded /\ [][NextBatch]_vars /\ WF_vars(CallCompletes)

\* ------------------------------------------------------------------------
\* getAccountInfo as a step: one call on one description and one master
\* ------------------------------------------------------------------------

\* the process with a master loaded and a description about to be classified
InitClassify ==
    /\ ACCOUNT_DATA \in Masters
    /\ itemName \in Descriptions
    /\ accountInfo = NotCalled
    /\ fileStorage = <<>>
    /\ nextFileId = 1
    /\ phase = [r \in Requests |-> "idle"]
    /\ batchFiles = [r \in Requests |-> <<>>]
    /\ promise = [r \in Requests |-> <<>>]
    /\ semaphore = [r \in Requests |-> NewSemaphore(MAX_CONCURRENT)]
    /\ expired = [r \in Requests |-> {}]
    /\ admitLog = [r \in Requests |-> <<>>]
    /\ waited = [r \in Requests |-> {}]
    /\ receiptData = [r \in Requests |-> <<>>]
    /\ errors = [r \in Requests |-> <<>>]
    /\ response = [r \in Requests |-> "none"]
    /\ calls = [r \in Requests |-> <<>>]
    /\ servedBy = [r \in Requests |-> <<>>]
    /\ firstSettled = [r \in Requests |-> 0]
    /\ ServerStarted(DefaultEnvironment)

\* const accountInfo = getAccountInfo(item.name)
Classify ==
    /\ accountInfo = NotCalled
    /\ accountInfo' = getAccountInfo(itemName, ACCOUNT_DATA)
    /\ UNCHANGED <<ACCOUNT_DATA, itemName, storeVars, batchVars, llmVars>>

NextClassify == Classify

ClassifySpec == InitClassify /\ [][NextClassify]_vars

\* ------------------------------------------------------------------------
\* The factory, the providers and the provider endpoints as steps
\* ------------------------------------------------------------------------

\* the state of the store, the batch runner and the classifier at start-up
ServerIdle ==
    /\ fileStorage = <<>>
    /\ nextFileId = 1
    /\ phase = [r \in Requests |-> "idle"]
    /\ batchFiles = [r \in Requests |-> <<>>]
    /\ promise = [r \in Requests |-> <<>>]
    /\ semaphore = [r \in Requests |-> NewSemaphore(MAX_CONCURRENT)]
    /\ expired = [r \in Requests |-> {}]
    /\ admitLog = [r \in Requests |-> <<>>]
    /\ waited = [r \in Requests |-> {}]
    /\ receiptData = [r \in Requests |-> <<>>]
    /\ errors = [r \in Requests |-> <<>>]
    /\ response = [r \in Requests |-> "none"]
    /\ calls = [r \in Requests |-> <<>>]
    /\ servedBy = [r \in Requests |-> <<>>]
    /\ firstSettled = [r \in Requests |-> 0]
    /\ ACCOUNT_DATA = <<>>
    /\ itemName = <<>>
    /\ accountInfo = NotCalled

\* a script that requires the factory, in some environment
InitFactory ==
    /\ ServerIdle
    /\ LLM_CONFIG \in Environments
    /\ llmService = NoService
    /\ invoked = NoCall
    /\ returned = NoCall

\* LLMFactory.createLLM(provider, config)
CreateLLM(provider, config) ==
    /\ invoked = NoCall
    /\ invoked' = [op |-> "createLLM", provider |-> provider,
                   config |-> config]
    /\ returned' = createLLM(LLM_CONFIG, provider, config)
    /\ UNCHANGED <<LLM_CONFIG, llmService, storeVars, batchVars, classifyVars>>

\* LLMFactory.createLLMWithFallback(primaryProvider, config)
CreateLLMWithFallback(primaryProvider, config) ==
    /\ invoked = NoCall
    /\ invoked' = [op |-> "createLLMWithFallback",
                   provider |-> primaryProvider, config |-> config]
    /\ returned' = createLLMWithFallback(LLM_CONFIG, primaryProvider, config)
    /\ UNCHANGED <<LLM_CONFIG, llmService, storeVars, batchVars, classifyVars>>

\* new OpenAIService(config) / new GeminiService(config)
NewProvider(provider, config) ==
    /\ invoked = NoCall
    /\ invoked' = [op |-> "new", provider |-> JsString(provider),
                   config |-> config]
    /\ returned' = Construct(LLM_CONFIG, provider, config)
    /\ UNCHANGED <<LLM_CONFIG, llmService, storeVars, batchVars, classifyVars>>

NextFactory ==
    \/ \E provider \in ProviderArgs, config \in CustomConfigs :
          CreateLLM(provider, config)
    \/ \E provider \in ProviderArgs, config \in CustomConfigs :
          CreateLLMWithFallback(provider, config)
    \/ \E provider \in Range(ProviderKeys), config \in CustomConfigs :
          NewProvider(provider, config)

FactorySpec == InitFactory /\ [][NextFactory]_vars

\* both providers configured
FullEnvironment ==
    Environment(OpenAIName, "sk-openai", "sk-gemini", DefaultRetryAttempts)

\* one provider instance, about to be used
InitProvider ==
    /\ ServerIdle
    /\ LLM_CONFIG = FullEnvironment
    /\ \E provider \in Range(ProviderKeys) :
          llmService = createLLM(FullEnvironment, JsString(provider), NoConfig)
    /\ invoked = NoCall
    /\ returned = NoCall

\* llmService.normalizeResponse(rawResponse)
NormalizeResponse(rawResponse) ==
    /\ invoked = NoCall
    /\ invoked' = [op |-> "normalizeResponse", text |-> rawResponse]
    /\ returned' = NormalizeResponseOf(llmService.provider, rawResponse)
    /\ UNCHANGED <<LLM_CONFIG, llmService, storeVars, batchVars, classifyVars>>

\* llmService.processImage(imageBuffer, prompt), the request ending in
\* `outcome`
ProcessImage(outcome) ==
    /\ invoked = NoCall
    /\ invoked' = [op |-> "processImage", outcome |-> outcome]
    /\ returned' = processImage(llmService.provider, outcome)
    /\ UNCHANGED <<LLM_CONFIG, llmService, storeVars, batchVars, classifyVars>>

\* llmService.handleError(error, operation)
HandleError(message, operation) ==
    /\ invoked = NoCall
    /\ invoked' = [op |-> "handleError", text |-> message,
                   operation |-> operation]
    /\ returned' = handleError(llmService.provider, message, operation)
    /\ UNCHANGED <<LLM_CONFIG, llmService, storeVars, batchVars, classifyVars>>

\* llmService.healthCheck(), the probe request ending in `probe`
HealthCheck(probe) ==
    /\ invoked = NoCall
    /\ invoked' = [op |-> "healthCheck", probe |-> probe]
    /\ returned' = healthCheck(llmService, probe)
    /\ UNCHANGED <<LLM_CONFIG, llmService, storeVars, batchVars, classifyVars>>

\* the inputs of the one call a behaviour makes: none once it was made
Uncalled(inputs) == IF invoked = NoCall THEN inputs ELSE {}

NextProvider ==
    \/ \E rawResponse \in Uncalled(Responses) : NormalizeResponse(rawResponse)
    \/ \E text \in Uncalled(Responses) : ProcessImage(RequestAnswers(text))
    \/ \E message \in Uncalled(ErrorTexts) :
          ProcessImage(RequestThrows(message))
    \/ \E message \in Uncalled(ErrorTexts), operation \in Operations :
          HandleError(message, operation)
    \/ \E probe \in Uncalled(Probes) : HealthCheck(probe)

ProviderSpec == InitProvider /\ [][NextProvider]_vars

\* ------------------------------------------------------------------------
\* The provider endpoints of the server
\* ------------------------------------------------------------------------

\* the bound on the number of uploads while providers are switched
MaxServerFiles == 1

\* the server started in some environment that lets it start
InitServer ==
    /\ ServerIdle
    /\ \E env \in Environments : ServerStarted(env)

\* switch-llm that assigns the new service before its health check
SwitchLLMAssignsFirst(provider, probe) ==
    LET newLLMService == createLLM(LLM_CONFIG, provider, NoConfig)
        isHealthy == healthCheck(newLLMService, probe)
    IN  /\ invoked' = [op |-> "switch-llm", provider |-> provider,
                       probe |-> probe]
        /\ IF ~Truthy(provider)
           THEN /\ returned' = [status |-> 400]
                /\ UNCHANGED llmService
           ELSE IF newLLMService.kind = "thrown"
           THEN /\ returned' = [status |-> 500]
                /\ UNCHANGED llmService
           ELSE /\ llmService' = newLLMService
                /\ returned' = [status |-> IF Truthy(isHealthy) THEN 200
                                           ELSE 400]
        /\ UNCHANGED <<LLM_CONFIG, storeVars, batchVars, classifyVars>>

\* POST /api/switch-llm with body {provider}; `probe` is what the health
\* check request of the new service ends in, if it is made
SwitchLLM(provider, probe) ==
    LET newLLMService == createLLM(LLM_CONFIG, provider, NoConfig)
        isHealthy == healthCheck(newLLMService, probe)
    IN  /\ invoked' = [op |-> "switch-llm", provider |-> provider,
                       probe |-> probe]
        /\ IF ~Truthy(provider)
           THEN /\ returned' = [status |-> 400]
                /\ UNCHANGED llmService
           ELSE IF newLLMService.kind = "thrown"
           THEN /\ returned' = [status |-> 500]
                /\ UNCHANGED llmService
           ELSE IF ~Truthy(isHealthy)
           THEN /\ returned' = [status |-> 400]
                /\ UNCHANGED llmService
           ELSE /\ llmService' = newLLMService
                /\ returned' = [status |-> 200]
        /\ UNCHANGED <<LLM_CONFIG, storeVars, batchVars, classifyVars>>

\* GET /health
Health(probe) ==
    /\ invoked' = [op |-> "health", probe |-> probe]
    /\ returned' = [status |-> 200,
                    healthy |-> healthCheck(llmService, probe)]
    /\ UNCHANGED <<LLM_CONFIG, llmService, storeVars, batchVars, classifyVars>>

\* the entry of info.configs for one provider: the settings of its config
\* (the defaults of max tokens, temperature and timeout) and, in place of the
\* key, whether there is one (!!config.apiKey)
MaskedConfig(config) ==
    [model |-> config.model, maxTokens |-> 1500, temperature |-> "0.1",
     timeout |-> 30000, hasApiKey |-> config.apiKey # ""]

\* getConfigInfo() that reports the key in place of the flag
getConfigInfoUnmasked(env) ==
    [currentProvider |-> env.provider,
     availableProviders |-> ProviderKeys,
     configs |->
        [openai |-> [MaskedConfig(env.openai) EXCEPT !.hasApiKey = env.openai.apiKey],
         gemini |-> [MaskedConfig(env.gemini) EXCEPT !.hasApiKey = env.gemini.apiKey]]]

\* getConfigInfo(), LLM_CONFIG being env
getConfigInfo(env) ==
    [currentProvider |-> env.provider,
     availableProviders |-> ProviderKeys,
     configs |-> [openai |-> MaskedConfig(env.openai),
                  gemini |-> MaskedConfig(env.gemini)]]

\* GET /api/llm-info
LLMInfo ==
    /\ invoked' = [op |-> "llm-info"]
    /\ returned' = [status |-> 200,
                    config |-> getConfigInfo(LLM_CONFIG),
                    provider |-> getProviderName(llmService.provider)]
    /\ UNCHANGED <<LLM_CONFIG, llmService, storeVars, batchVars, classifyVars>>

\* POST /api/upload, while fewer than MaxServerFiles files were uploaded
ServerUpload ==
    /\ nextFileId <= MaxServerFiles
    /\ Upload

NextServer ==
    \/ \E provider \in ProviderArgs, probe \in Probes :
          SwitchLLM(provider, probe)
    \/ \E probe \in Probes : Health(probe)
    \/ LLMInfo
    \/ ServerUpload
    \/ \E r \in SingleRequest : BatchRejected(r)
    \/ \E r \in SingleRequest : BatchStart(r)
    \/ \E r \in SingleRequest, i \in Items : CallReturns(r, i)
    \/ \E r \in SingleRequest, i \in Items : CallThrows(r, i)

ServerSpec == InitServer /\ [][NextServer]_vars

\* ------------------------------------------------------------------------
\* One batch under different retry settings
\* ------------------------------------------------------------------------

\* the values of LLM_RETRY_ATTEMPTS of the model
RetryAttempts == {1, DefaultRetryAttempts, 5}

\* the server with some files uploaded, started with some retry setting
InitRetry ==
    /\ \E n \in 0..MaxFiles :
          /\ fileStorage = [k \in 1..n |-> k]
          /\ nextFileId = n + 1
    /\ phase = [r \in Requests |-> "idle"]
    /\ batchFiles = [r \in Requests |-> <<>>]
    /\ promise = [r \in Requests |-> <<>>]
    /\ semaphore = [r \in Requests |-> NewSemaphore(MAX_CONCURRENT)]
    /\ expired = [r \in Requests |-> {}]
    /\ admitLog = [r \in Requests |-> <<>>]
    /\ waited = [r \in Requests |-> {}]
    /\ receiptData = [r \in Requests |-> <<>>]
    /\ errors = [r \in Requests |-> <<>>]
    /\ response = [r \in Requests |-> "none"]
    /\ calls = [r \in Requests |-> <<>>]
    /\ servedBy = [r \in Requests |-> <<>>]
    /\ firstSettled = [r \in Requests |-> 0]
    /\ ACCOUNT_DATA = <<>>
    /\ itemName = <<>>
    /\ accountInfo = NotCalled
    /\ \E retryAttempts \in RetryAttempts :
          ServerStarted(Environment(OpenAIName, "sk-openai", "",
                                    retryAttempts))

RetrySpec == InitRetry /\ [][NextBatch]_vars

\* ------------------------------------------------------------------------
\* The batch runner: properties
\* ------------------------------------------------------------------------

\* C1: within one batch-process invocation, the number of items admitted by
\* acquire() and not yet released (their extraction call in flight) never
\* exceeds MAX_CONCURRENT = 2.
C1_ConcurrencyCeiling ==
    \A r \in Requests : Cardinality(InFlight(r)) <= MAX_CONCURRENT

\* C1 witness: a batch of four with two calls in flight, one waiter queued
\* and one item already failed.
C1_Witness ==
    \E r \in Requests :
        /\ Len(batchFiles[r]) >= 4
        /\ Cardinality(InFlight(r)) = 2
        /\ Cardinality(Queued(r)) >= 1
        /\ \E i \in 1..Len(promise[r]) :
              promise[r][i].state = "fulfilled" /\ ~promise[r][i].value.success

\* the entries of the settled result list that carry file id `id`
EntriesOf(r, id) ==
    {i \in 1..Len(promise[r]) :
        promise[r][i].state = "fulfilled" /\ promise[r][i].value.fileId = id}

\* C2: when a batch of K >= 1 files has settled, the result list has exactly
\* K entries, every input file id appears in exactly one entry, every entry
\* is tagged success or failure, and processedCount plus the number of
\* reported errors is K.
C2_NoItemLoss ==
    \A r \in Requests :
        (phase[r] = "responded" /\ response[r] # "400") =>
            /\ Len(batchFiles[r]) >= 1
            /\ Len(promise[r]) = Len(batchFiles[r])
            /\ \A i \in 1..Len(promise[r]) :
                  /\ promise[r][i].state = "fulfilled"
                  /\ promise[r][i].value.success \in BOOLEAN
            /\ \A k \in 1..Len(batchFiles[r]) :
                  Cardinality(EntriesOf(r, batchFiles[r][k])) = 1
            /\ Len(receiptData[r]) + Len(errors[r]) = Len(batchFiles[r])

\* C2 witness: a settled batch of at least three files with a success and a
\* failure among its entries.
C2_Witness ==
    \E r \in Requests :
        /\ phase[r] = "responded"
        /\ Len(batchFiles[r]) >= 3
        /\ Len(receiptData[r]) >= 1
        /\ Len(errors[r]) >= 1

\* C3: with every extraction call eventually returning or throwing, every
\* queued item is eventually admitted, a running batch eventually responds
\* with all its K items settled, and the step that settles an item, by
\* failure as by success, releases its slot.
C3_FailureBlocksNobody ==
    /\ \A r \in SingleRequest :
          (phase[r] = "running") ~>
              (/\ phase[r] = "responded"
               /\ Len(promise[r]) = Len(batchFiles[r])
               /\ Settled(promise[r])
               /\ Queued(r) = {}
               /\ Range(admitLog[r]) = 1..Len(batchFiles[r]))
    /\ [][\A r \in SingleRequest, i \in Items :
             (i \in InFlight(r) /\ i \notin InFlight(r)') =>
                 /\ semaphore'[r].currentConcurrent =
                       semaphore[r].currentConcurrent
                         - (IF Len(semaphore[r].queue) > 0 THEN 0 ELSE 1)
                 /\ Len(semaphore[r].queue) > 0 =>
                       Head(semaphore[r].queue) \in InFlight(r)']_vars

\* C3 witness: a batch of four has responded although its first item
\* failed: the two items that had to wait were admitted and settled.
C3_Witness ==
    \E r \in Requests :
        /\ phase[r] = "responded"
        /\ Len(batchFiles[r]) = 4
        /\ ~promise[r][1].value.success
        /\ {3, 4} \subseteq Range(admitLog[r])
        /\ Settled(promise[r])

\* C4: the gate is FIFO.  Items that had to wait are admitted in the order
\* of their acquire() calls (the store order); an item that called acquire()
\* after a still queued one is not admitted; a release() with a non-empty
\* queue admits the head waiter in the same step and leaves the count as
\* it was.
C4_Fifo ==
    /\ [](\A r \in Requests :
            /\ \A p, q \in 1..Len(admitLog[r]) :
                  (p < q /\ admitLog[r][p] \in waited[r]
                         /\ admitLog[r][q] \in waited[r])
                      => admitLog[r][p] < admitLog[r][q]
            /\ \A i, j \in 1..Len(promise[r]) :
                  (i < j /\ i \in Queued(r)) => j \in Queued(r))
    /\ [][\A r \in Requests :
             (Len(semaphore[r].queue) > 0 /\ semaphore'[r] # semaphore[r]) =>
                 /\ semaphore'[r].queue = Tail(semaphore[r].queue)
                 /\ semaphore'[r].currentConcurrent =
                       semaphore[r].currentConcurrent
                 /\ Head(semaphore[r].queue) \in InFlight(r)'
                 /\ admitLog'[r] =
                       Append(admitLog[r], Head(semaphore[r].queue))]_vars

\* C4 witness: both waiters of a batch of four have been admitted, the
\* earlier caller first.
C4_Witness ==
    \E r \in Requests :
        /\ waited[r] = {3, 4}
        /\ admitLog[r] = <<1, 2, 3, 4>>

\* C5: once the configured timeout of a provider call has elapsed, the call
\* is no longer in flight (it was ended and its item reported as failed).
C5_TimeoutEndsCall ==
    \A r \in Requests : \A i \in expired[r] : i \notin InFlight(r)

\* C6 as claimed: a batch that is answered with a failure, other than by
\* report generation failing, is a batch on an empty store.
C6_OnlyEmptyInputFails ==
    \A r \in Requests :
        (phase[r] = "responded" /\ response[r] # "200"
            /\ ~GenerateExcelThrows(receiptData[r]))
        => (response[r] = "400" /\ Len(batchFiles[r]) = 0)

\* C6 amended: no per-item promise ever rejects, so no unknown_ id is
\* reported and every thrown Error becomes a {success: false, fileId, error}
\* record; an empty store is answered 400; a non-empty batch is answered
\* with the failure "500_no_receipt" exactly when every item failed, and
\* otherwise item failures do not fail the batch.
C6_ItemFailuresAreRecords ==
    \A r \in Requests :
        /\ \A i \in 1..Len(promise[r]) : promise[r][i].state # "rejected"
        /\ \A k \in 1..Len(errors[r]) :
              /\ errors[r][k].fileId \in Range(batchFiles[r])
              /\ errors[r][k].error \in ErrorMessages
        /\ phase[r] = "responded" =>
              /\ response[r] = "400" <=> Len(batchFiles[r]) = 0
              /\ response[r] = "500_no_receipt" <=>
                    /\ Len(batchFiles[r]) > 0
                    /\ \A i \in 1..Len(promise[r]) :
                          ~promise[r][i].value.success
              /\ response[r] = "200" <=>
                    /\ \E i \in 1..Len(promise[r]) : promise[r][i].value.success
                    /\ ~GenerateExcelThrows(receiptData[r])

\* C6 witness: a batch in which most items failed is answered with a
\* report, the failures listed as records.
C6_Witness ==
    \E r \in Requests :
        /\ response[r] = "200"
        /\ Len(errors[r]) >= 2
        /\ Len(receiptData[r]) = 1

\* ------------------------------------------------------------------------
\* The classification cascade: properties
\* ------------------------------------------------------------------------

\* a master of the shape of the data model: every sub-account has a name
InDataModel(master) ==
    \A k \in 1..Len(master) :
        \A s \in 1..Len(master[k].account.subs) :
            master[k].account.subs[s].name # Undefined

\* the description contains the name of the account
NameHit(lower, leaf) ==
    Includes(lower, ToLowerCase(leaf.account.name))

\* the description contains the name of the s-th sub-account of the account
SubHit(lower, leaf, s) ==
    Includes(lower, ToLowerCase(leaf.account.subs[s].name))

\* the accounts of the loaded master the description matches, by the
\* account's name or by the name of one of its sub-accounts
MasterHits ==
    LET lower == ToLowerCase(itemName)
    IN  {k \in 1..Len(ACCOUNT_DATA) :
            \/ NameHit(lower, ACCOUNT_DATA[k])
            \/ \E s \in 1..Len(ACCOUNT_DATA[k].account.subs) :
                  SubHit(lower, ACCOUNT_DATA[k], s)}

\* the keyword groups in the order the cascade is said to test them:
\* childcare, foodstuffs, photography, transport-adjacent, then the generic
\* groups in their listed order
CascadeGroups ==
    <<ChildcareGroup, FoodGroup, PhotoGroup, TransportGroup>> \o LegacyGroups

\* the groups one of whose keywords the description contains
GroupHits ==
    LET lower == ToLowerCase(itemName)
    IN  {g \in 1..Len(CascadeGroups) :
            \E keyword \in CascadeGroups[g].keywords :
                Includes(lower, keyword)}

\* C7: classification is total. For every non-empty description and every
\* master of the shape of the data model, the call returns a result (it
\* neither throws nor returns nothing) whose accountCode is non-empty.
C7_ClassificationTotal ==
    (accountInfo # NotCalled /\ itemName # <<>> /\ InDataModel(ACCOUNT_DATA))
        => /\ accountInfo.kind = "result"
           /\ accountInfo.accountCode # <<>>

\* C7 witness: a non-empty description was classified by the name of a
\* master account that has no explicit code, and got the code its key
\* starts with.
C7_Witness ==
    /\ accountInfo.kind = "result"
    /\ itemName # <<>>
    /\ InDataModel(ACCOUNT_DATA)
    /\ \E k \in 1..Len(ACCOUNT_DATA) :
          /\ ACCOUNT_DATA[k].account.code = <<>>
          /\ accountInfo.accountName = ACCOUNT_DATA[k].account.name
          /\ accountInfo.accountCode = <<"7", "4", "6", "1", "5">>

\* C8: the cascade is evaluated in the order master lookup, detailed groups,
\* generic groups, default, and the first tier or group that matches gives
\* the result: a description that matches the master gets the result of a
\* master account it matches, whatever keywords it contains; one that matches
\* no master account gets the result of the first group it matches.
C8_FirstMatchWins ==
    (accountInfo # NotCalled /\ InDataModel(ACCOUNT_DATA))
        => /\ MasterHits # {} =>
                 \E k \in MasterHits :
                    LET leaf == ACCOUNT_DATA[k]
                    IN  /\ accountInfo.accountName = leaf.account.name
                        /\ accountInfo.accountCode
                              \in {leaf.account.code, SplitFirst(leaf.key, "_")}
                        /\ \/ /\ leaf.account.subs = <<>>
                              /\ accountInfo.subAccountCode = <<>>
                           \/ \E s \in 1..Len(leaf.account.subs) :
                                 /\ accountInfo.subAccountCode
                                       = leaf.account.subs[s].code
                                 /\ accountInfo.subAccountName
                                       = leaf.account.subs[s].name
           /\ (MasterHits = {} /\ GroupHits # {}) =>
                 \E g \in GroupHits :
                    /\ \A h \in GroupHits : g <= h
                    /\ accountInfo = CascadeGroups[g].result

\* C8 witness: a description that contains both the name of a master account
\* and the keyword 絵本 got the master account, not 保育材料費.
C8_Witness ==
    /\ accountInfo.kind = "result"
    /\ MasterHits # {}
    /\ 1 \in GroupHits
    /\ Includes(itemName, <<"u7d75", "u672c">>)   \* 絵本
    /\ accountInfo # ChildcareGroup.result
    /\ \E k \in MasterHits :
          accountInfo.accountName = ACCOUNT_DATA[k].account.name

\* C9: a description that matches no master account name, no master
\* sub-account name and no keyword of any group yields exactly
\* {74610, 消耗品費, 0001, 事務用消耗品代}.
C9_DefaultFallback ==
    (accountInfo # NotCalled /\ InDataModel(ACCOUNT_DATA)
        /\ MasterHits = {} /\ GroupHits = {})
        => accountInfo =
              [kind |-> "result",
               accountCode |-> <<"7", "4", "6", "1", "0">>,
               accountName |->
                  <<"u6d88", "u8017", "u54c1", "u8cbb">>,   \* 消耗品費
               subAccountCode |-> <<"0", "0", "0", "1">>,
               subAccountName |->                          \* 事務用消耗品代
                  <<"u4e8b", "u52d9", "u7528", "u6d88", "u8017", "u54c1",
                    "u4ee3">>]

\* C9 witness: with a master of two accounts loaded, a non-empty description
\* that matches nothing was given the default account.
C9_Witness ==
    /\ accountInfo.kind = "result"
    /\ itemName # <<>>
    /\ Len(ACCOUNT_DATA) = 2
    /\ InDataModel(ACCOUNT_DATA)
    /\ MasterHits = {}
    /\ GroupHits = {}
    /\ accountInfo.accountCode = <<"7", "4", "6", "1", "0">>

\* C10 as claimed: whatever the description and the master (sub-account
\* sequences may be empty, explicit codes may be missing), all four fields
\* of the returned result are non-empty strings.
C10_FullyPopulated ==
    (accountInfo # NotCalled /\ InDataModel(ACCOUNT_DATA))
        => /\ accountInfo.accountCode # <<>>
           /\ accountInfo.accountName # <<>>
           /\ accountInfo.subAccountCode # <<>>
           /\ accountInfo.subAccountName # <<>>

\* C10 amended: accountCode and accountName of the returned result are never
\* empty; subAccountCode and subAccountName are empty together, and exactly
\* when the result is that of a master account the description matched by
\* name and that has no sub-accounts.
C10_PopulatedExceptSubless ==
    (accountInfo # NotCalled /\ InDataModel(ACCOUNT_DATA))
        => /\ accountInfo.kind = "result"
           /\ accountInfo.accountCode # <<>>
           /\ accountInfo.accountName # <<>>
           /\ accountInfo.subAccountCode = <<>>
                 <=> accountInfo.subAccountName = <<>>
           /\ accountInfo.subAccountCode = <<>>
                 <=> \E k \in 1..Len(ACCOUNT_DATA) :
                        /\ ACCOUNT_DATA[k].account.subs = <<>>
                        /\ NameHit(ToLowerCase(itemName), ACCOUNT_DATA[k])
                        /\ accountInfo.accountName
                              = ACCOUNT_DATA[k].account.name
                        /\ accountInfo.accountCode
                              \in {ACCOUNT_DATA[k].account.code,
                                   SplitFirst(ACCOUNT_DATA[k].key, "_")}

\* C10 witness: the description contains 現金, the master has the account
\* 現金 without sub-accounts, and the result names the account with both
\* sub-account fields empty.
C10_Witness ==
    /\ accountInfo.kind = "result"
    /\ accountInfo.accountCode = <<"1", "1", "1", "1", "0">>
    /\ accountInfo.subAccountCode = <<>>
    /\ accountInfo.subAccountName = <<>>
    /\ \E k \in 1..Len(ACCOUNT_DATA) : ACCOUNT_DATA[k].account.subs = <<>>

\* the accounts of a section, grouped by group, main account and account
\* key, each level in the order the document declares its keys
RECURSIVE DeclaredLevel(_, _)
RECURSIVE DeclaredKeys(_, _, _)
DeclaredLevel(leaves, level) ==
    IF level > 3 THEN leaves
    ELSE DeclaredKeys(leaves, level,
            DistinctKeys([k \in 1..Len(leaves) |-> KeyAt(leaves[k], level)],
                         {}))

DeclaredKeys(leaves, level, keys) ==
    IF keys = <<>> THEN <<>>
    ELSE LET Under(leaf) == KeyAt(leaf, level) = Head(keys)
         IN  DeclaredLevel(SelectSeq(leaves, Under), level + 1)
                 \o DeclaredKeys(leaves, level, Tail(keys))

\* the accounts of the loaded master in the order the lookup is said to
\* visit them: 資産の部 then 損益の部, each in declared order
DeclaredOrder ==
    LET InAssets(leaf) == leaf.section = AssetsSection
        InProfitLoss(leaf) == leaf.section = ProfitLossSection
    IN  DeclaredLevel(SelectSeq(ACCOUNT_DATA, InAssets), 1)
            \o DeclaredLevel(SelectSeq(ACCOUNT_DATA, InProfitLoss), 1)

\* the description matches the account, by its name or by a sub-account's
Hits(leaf) ==
    \/ NameHit(ToLowerCase(itemName), leaf)
    \/ \E s \in 1..Len(leaf.account.subs) :
          SubHit(ToLowerCase(itemName), leaf, s)

\* the result is the one the account gives: by its name if the description
\* contains it, else by the first sub-account whose name it contains
ResultOfAccount(leaf) ==
    /\ accountInfo.kind = "result"
    /\ accountInfo.accountName = leaf.account.name
    /\ accountInfo.accountCode
          \in {leaf.account.code, SplitFirst(leaf.key, "_")}
    /\ IF NameHit(ToLowerCase(itemName), leaf)
       THEN IF leaf.account.subs = <<>>
            THEN /\ accountInfo.subAccountCode = <<>>
                 /\ accountInfo.subAccountName = <<>>
            ELSE /\ accountInfo.subAccountCode = leaf.account.subs[1].code
                 /\ accountInfo.subAccountName = leaf.account.subs[1].name
       ELSE \E s \in 1..Len(leaf.account.subs) :
               /\ SubHit(ToLowerCase(itemName), leaf, s)
               /\ \A t \in 1..(s - 1) :
                     ~SubHit(ToLowerCase(itemName), leaf, t)
               /\ accountInfo.subAccountCode = leaf.account.subs[s].code
               /\ accountInfo.subAccountName = leaf.account.subs[s].name

\* C11: the master lookup visits 資産の部 then 損益の部 and within them the
\* accounts in declared group / main-account / account-key order; the
\* first account that the description matches, by its name or else by its
\* first matching sub-account, gives the result, and a lookup that matches
\* nothing passes on to the keyword tiers without error.
C11_DeclaredOrderFirstHit ==
    (accountInfo # NotCalled /\ InDataModel(ACCOUNT_DATA))
        => /\ accountInfo.kind = "result"
           /\ \A k \in 1..Len(DeclaredOrder) :
                 (/\ Hits(DeclaredOrder[k])
                  /\ \A j \in 1..(k - 1) : ~Hits(DeclaredOrder[j]))
                 => ResultOfAccount(DeclaredOrder[k])

\* ------------------------------------------------------------------------
\* The factory and the providers: properties
\* ------------------------------------------------------------------------

\* the providers with a valid configuration in the environment
ValidlyConfigured ==
    {p \in Range(ProviderKeys) :
        /\ ConfigOf(LLM_CONFIG, p).apiKey # ""
        /\ ConfigOf(LLM_CONFIG, p).model # ""}

\* C12: createLLMWithFallback with a primary provider whose construction
\* fails, be it with or without a custom config argument, returns an
\* instance of a validly configured provider whenever the environment has
\* one, and throws only when it has none.
C12_FallbackYieldsInstance ==
    (/\ invoked.op = "createLLMWithFallback"
     /\ createLLM(LLM_CONFIG, invoked.provider, invoked.config).kind = "thrown")
        => /\ ValidlyConfigured # {} =>
                 /\ returned.kind = "instance"
                 /\ returned.provider \in ValidlyConfigured
           /\ returned.kind = "thrown" => ValidlyConfigured = {}

\* the registered provider a name stands for in any letter case, <<>> for
\* the names that stand for none
RegisteredAs(provider) ==
    IF provider.type # "string" THEN <<>>
    ELSE IF provider.value \in {OpenAIName, <<"O", "p", "e", "n", "A", "I">>}
    THEN OpenAIName
    ELSE IF provider.value \in {GeminiName, <<"G", "E", "M", "I", "N", "I">>}
    THEN GeminiName
    ELSE <<>>

\* the config a construction uses: the custom one if given, else the
\* environment's
EffectiveConfig(provider, config) ==
    IF config.given THEN config ELSE ConfigOf(LLM_CONFIG, provider)

\* C13: configuration is validated eagerly. createLLM with an empty,
\* non-string or unregistered name throws; constructing a provider, directly
\* or through createLLM, with a config (custom or from the environment) that
\* lacks apiKey or model throws and yields no instance; a registered name in
\* any letter case with a complete config yields that provider's instance.
C13_EagerValidation ==
    (invoked.op \in {"createLLM", "new"})
        => LET provider == RegisteredAs(invoked.provider)
               config == EffectiveConfig(provider, invoked.config)
           IN  IF provider = <<>> THEN returned.kind = "thrown"
               ELSE IF config.apiKey = "" \/ config.model = ""
               THEN returned.kind = "thrown"
               ELSE /\ returned.kind = "instance"
                    /\ returned.provider = provider
                    /\ returned.config = config

\* C13 witness: createLLM('OpenAI') in an environment with the OpenAI key
\* returned an OpenAI instance configured from the environment.
C13_Witness ==
    /\ invoked.op = "createLLM"
    /\ invoked.provider = JsString(<<"O", "p", "e", "n", "A", "I">>)
    /\ ~invoked.config.given
    /\ returned.kind = "instance"
    /\ returned.provider = OpenAIName
    /\ returned.config.apiKey = "sk-openai"

\* the health check request of a provider ended well: it answered, and for
\* Gemini with a text that is not empty
ProbeTruthy(provider, probe) ==
    /\ probe.answered
    /\ provider = GeminiName => probe.text # <<>>

\* C14: the active provider changes only in a switch-llm request whose
\* replacement was constructed and whose health check returned a truthy
\* value; a switch-llm request without provider name, with a construction
\* that throws or with a failing health check is answered with an error and
\* leaves the active provider as it is; no other operation changes it.
C14_SwitchOnlyWhenHealthy ==
    [][/\ llmService' # llmService =>
             \E provider \in ProviderArgs, probe \in Probes :
                /\ SwitchLLM(provider, probe)
                /\ RegisteredAs(provider) # <<>>
                /\ llmService'.kind = "instance"
                /\ llmService'.provider = RegisteredAs(provider)
                /\ ConfigOf(LLM_CONFIG, RegisteredAs(provider)).apiKey # ""
                /\ ProbeTruthy(RegisteredAs(provider), probe)
                /\ returned'.status = 200
       /\ \A provider \in ProviderArgs, probe \in Probes :
             (/\ SwitchLLM(provider, probe)
              /\ \/ ~Truthy(provider)
                 \/ RegisteredAs(provider) = <<>>
                 \/ ConfigOf(LLM_CONFIG, RegisteredAs(provider)).apiKey = ""
                 \/ ~ProbeTruthy(RegisteredAs(provider), probe))
             => /\ llmService' = llmService
                /\ returned'.status \in {400, 500}
      ]_vars

\* C14 witness: a server started with OpenAI runs on Gemini after a
\* switch-llm request that was answered 200, with a file uploaded meanwhile.
C14_Witness ==
    /\ LLM_CONFIG.provider = OpenAIName
    /\ llmService.provider = GeminiName
    /\ invoked.op = "switch-llm"
    /\ returned.status = 200
    /\ Len(fileStorage) > 0

\* the white space a fence may be set off with
FenceSeparators == {<<>>, <<" ">>, <<"nl">>}

\* C15: for every text without code fence that normalizeResponse parses,
\* normalizeResponse of the text wrapped in json fences and in bare fences
\* returns the same parsed value, in both providers.
C15_FencesDoNotMatter ==
    (/\ invoked.op = "normalizeResponse"
     /\ returned.kind = "parsed"
     /\ ~Includes(invoked.text, Fence))
        => \A before, after \in FenceSeparators :
              /\ NormalizeResponseOf(llmService.provider,
                    JsonFence \o before \o invoked.text \o after \o Fence)
                 = returned
              /\ NormalizeResponseOf(llmService.provider,
                    Fence \o before \o invoked.text \o after \o Fence)
                 = returned

\* C15 witness: the Gemini provider parsed the unfenced text of an object
\* set in white space.
C15_Witness ==
    /\ invoked.op = "normalizeResponse"
    /\ llmService.provider = GeminiName
    /\ ~Includes(invoked.text, Fence)
    /\ Len(invoked.text) = 3
    /\ returned.kind = "parsed"
    /\ returned.value = <<"{", "}">>

\* C16: when the response of the model cannot be parsed as JSON, the Error
\* processImage throws is an extraction error: it is never the
\* authentication, the rate-limit or the network Error, whatever the
\* response text contains.
C16_ParseFailureIsExtractionError ==
    (/\ invoked.op = "processImage"
     /\ ~invoked.outcome.threw
     /\ returned.kind = "thrown")
        => /\ returned.error.category
                 \notin {"authentication", "rate-limit", "network"}
           /\ returned.error.message
                 \notin {getProviderName(llmService.provider) \o text :
                           text \in {BaseMessage.authentication, BaseMessage.rateLimit,
                                     BaseMessage.network}}

\* the category the base class is said to give a message: the first of
\* authentication, rate-limit / quota, network / timeout that applies
BaseCategory(message) ==
    IF Includes(message, BaseMarker.apiKey)
       \/ Includes(message, BaseMarker.authentication)
    THEN "authentication"
    ELSE IF Includes(message, BaseMarker.quota) \/ Includes(message, BaseMarker.rateLimit)
    THEN "rate-limit"
    ELSE IF Includes(message, BaseMarker.network) \/ Includes(message, BaseMarker.timeout)
    THEN "network"
    ELSE "unclassified"

\* the category a provider is said to give a message
CategoryOf(provider, message) ==
    IF provider # GeminiName THEN BaseCategory(message)
    ELSE IF Includes(message, GeminiMarker.safety) THEN "safety"
    ELSE IF Includes(message, GeminiMarker.quotaExceeded) THEN "quota-exceeded"
    ELSE IF Includes(message, GeminiMarker.permissionDenied) THEN "permission-denied"
    ELSE BaseCategory(message)

Categories ==
    {"authentication", "rate-limit", "network", "unclassified", "safety",
     "quota-exceeded", "permission-denied"}

\* the message of the Error of a category
MessageOf(category, provider, message, operation) ==
    IF category = "authentication"
    THEN getProviderName(provider) \o BaseMessage.authentication
    ELSE IF category = "rate-limit"
    THEN getProviderName(provider) \o BaseMessage.rateLimit
    ELSE IF category = "network"
    THEN getProviderName(provider) \o BaseMessage.network
    ELSE IF category = "safety" THEN GeminiMessage.safety
    ELSE IF category = "quota-exceeded" THEN GeminiMessage.quota
    ELSE IF category = "permission-denied" THEN GeminiMessage.permission
    ELSE getProviderName(provider) \o BaseMessage.unclassified1 \o operation
             \o BaseMessage.unclassified2 \o message

\* C17: handleError returns, for every Error, the Error of exactly one
\* category: the first of authentication, rate-limit / quota, network /
\* timeout, unclassified that applies, in the Gemini provider preceded by
\* SAFETY, QUOTA_EXCEEDED and PERMISSION_DENIED in that order; the messages
\* of different categories differ.
C17_OneCategoryFirstMatch ==
    (invoked.op = "handleError")
        => LET provider == llmService.provider
               category == CategoryOf(provider, invoked.text)
           IN  /\ returned.category = category
               /\ returned.message
                     = MessageOf(category, provider, invoked.text,
                                 invoked.operation)
               /\ \A other \in Categories \ {category} :
                     returned.message
                        # MessageOf(other, provider, invoked.text,
                                    invoked.operation)

\* C17 witness: the Gemini provider was given a message with both the
\* marker SAFETY and the words API key, and returned the safety Error.
C17_Witness ==
    /\ invoked.op = "handleError"
    /\ llmService.provider = GeminiName
    /\ Includes(invoked.text, GeminiMarker.safety)
    /\ Includes(invoked.text, BaseMarker.apiKey)
    /\ returned.category = "safety"

\* C18: healthCheck() resolves to a boolean, true when the probe request
\* succeeded and false when it failed.
C18_HealthCheckIsBoolean ==
    (invoked.op = "healthCheck")
        => /\ returned.type = "boolean"
           /\ returned = JsBoolean(invoked.probe.answered)

\* ------------------------------------------------------------------------
\* The batch runner: calls and preconditions
\* ------------------------------------------------------------------------

\* C19: no automatic retry. In one batch, processImage is called once for
\* every item that was admitted and never for an item that still waits, so
\* once for every item when the batch is answered, whatever the outcome of
\* the calls and whatever retryAttempts is configured.
C19_OneCallPerItem ==
    \A r \in Requests :
        /\ Len(calls[r]) = Len(promise[r])
        /\ \A i \in 1..Len(calls[r]) :
              calls[r][i] = IF promise[r][i] = AtAcquire THEN 0 ELSE 1
        /\ (phase[r] = "responded" /\ response[r] # "400") =>
              /\ Len(calls[r]) = Len(batchFiles[r])
              /\ \A i \in 1..Len(calls[r]) : calls[r][i] = 1

\* C19 witness: with five retry attempts configured, a batch of at least
\* three items, some failed and some successful, was answered after one call
\* for each item.
C19_Witness ==
    \E r \in Requests :
        /\ LLM_CONFIG.retryAttempts = 5
        /\ phase[r] = "responded"
        /\ Len(batchFiles[r]) >= 3
        /\ Len(errors[r]) >= 2
        /\ Len(receiptData[r]) >= 1
        /\ \A i \in 1..Len(calls[r]) : calls[r][i] = 1

\* C20: a batch-process request on an empty store is answered 400 in the
\* step in which it arrives, and nothing else happens: no semaphore slot is
\* taken, no promise is made, no provider call is made and no report is
\* produced.
C20_EmptyStoreRejected ==
    /\ [](\A r \in Requests :
            response[r] = "400" =>
               /\ batchFiles[r] = <<>>
               /\ promise[r] = <<>>
               /\ calls[r] = <<>>
               /\ admitLog[r] = <<>>
               /\ semaphore[r].currentConcurrent = 0
               /\ semaphore[r].queue = <<>>
               /\ receiptData[r] = <<>>)
    /\ [][\A r \in Requests :
            (phase[r] = "idle" /\ phase'[r] # "idle" /\ fileStorage = <<>>)
               => /\ phase'[r] = "responded"
                  /\ response'[r] = "400"]_vars

\* C20 witness: files were uploaded and removed again, and the batch
\* request that followed was answered 400.
C20_Witness ==
    \E r \in Requests :
        /\ response[r] = "400"
        /\ nextFileId > 2
        /\ fileStorage = <<>>

\* ------------------------------------------------------------------------
\* The batch runner and the store
\* ------------------------------------------------------------------------

\* the file ids the results of request r report, receipts and errors
ReportedIds(r) ==
    {receiptData[r][k].source : k \in 1..Len(receiptData[r])}
        \cup {errors[r][k].fileId : k \in 1..Len(errors[r])}

\* some variable of the batch runner changes in the step
BatchStep == batchVars' # batchVars

\* C21: a batch works on a snapshot of the store. The items of a request are
\* the files in the store in the step the request starts and stay the same
\* until it is answered, whatever uploads, delete-file and clear-files
\* requests happen meanwhile; its results report exactly these files; and no
\* step of the batch runner changes the store.
C21_StoreSnapshot ==
    /\ [](\A r \in Requests :
            (phase[r] = "responded" /\ response[r] # "400") =>
               /\ ReportedIds(r) = Range(batchFiles[r])
               /\ Len(receiptData[r]) + Len(errors[r]) = Len(batchFiles[r]))
    /\ [][/\ \A r \in Requests :
               /\ (phase[r] = "idle" /\ phase'[r] = "running")
                     => batchFiles'[r] = fileStorage
               /\ phase[r] # "idle" => batchFiles'[r] = batchFiles[r]
          /\ BatchStep => fileStorage' = fileStorage]_vars

\* C21 witness: a batch of three files was answered 200 with a receipt for
\* each of them although, while it ran, one of its files was deleted and
\* another file was uploaded.
C21_Witness ==
    \E r \in Requests :
        /\ response[r] = "200"
        /\ Len(batchFiles[r]) = 3
        /\ Len(receiptData[r]) = 3
        /\ \E id \in Range(batchFiles[r]) : id \notin Range(fileStorage)
        /\ \E id \in Range(fileStorage) : id \notin Range(batchFiles[r])

\* ------------------------------------------------------------------------
\* The report assembler (generateExcelFile)
\* ------------------------------------------------------------------------

\* the bound on the yen values an extracted receipt carries
MaxYen == 2

\* a numeric field of an extracted receipt: missing from the JSON, or a number
NoField == [given |-> FALSE, value |-> 0]

Field(n) == [given |-> TRUE, value |-> n]

\* JS truthiness of a numeric field: undefined and 0 are falsy
FieldTruthy(f) == f.given /\ f.value # 0

\* JS a || b on numeric fields
FieldOr(a, b) == IF FieldTruthy(a) THEN a ELSE b

\* JS f && f > 0 (undefined > 0 is false)
FieldPositive(f) == FieldTruthy(f) /\ f.value > 0

RECURSIVE DecimalText(_)
\* String(n) for an integer n >= 0
DecimalText(n) ==
    IF n < 10 THEN <<Digits[n + 1]>>
    ELSE DecimalText(n \div 10) \o <<Digits[(n % 10) + 1]>>

RECURSIVE GroupThousands(_)
\* the digit groups of toLocaleString: a comma before every third digit
\* counted from the right
GroupThousands(digits) ==
    IF Len(digits) <= 3 THEN digits
    ELSE GroupThousands(SubSeq(digits, 1, Len(digits) - 3)) \o <<",">>
            \o SubSeq(digits, Len(digits) - 2, Len(digits))

\* n.toLocaleString() for an integer n
ToLocaleString(n) ==
    IF n < 0 THEN <<"-">> \o GroupThousands(DecimalText(0 - n))
    ELSE GroupThousands(DecimalText(n))

RECURSIVE PadStart(_, _, _)
\* text.padStart(length, fill)
PadStart(text, length, fill) ==
    IF Len(text) >= length THEN text
    ELSE PadStart(<<fill>> \o text, length, fill)

\* the template `¥${n.toLocaleString()}` written into an amount cell
YenText(n) == <<"u00A5">> \o ToLocaleString(n)

\* the item_details texts of the summary rows: 小計, 消費税（標準税率）,
\* 消費税（軽減税率）, 消費税, 合計金額（税込）
RowLabel ==
    [subtotal |-> <<"u5C0F", "u8A08">>,
     standardTax |-> <<"u6D88", "u8CBB", "u7A0E", "uFF08", "u6A19", "u6E96",
                       "u7A0E", "u7387", "uFF09">>,
     reducedTax |-> <<"u6D88", "u8CBB", "u7A0E", "uFF08", "u8EFD", "u6E1B",
                      "u7A0E", "u7387", "uFF09">>,
     tax |-> <<"u6D88", "u8CBB", "u7A0E">>,
     total |-> <<"u5408", "u8A08", "u91D1", "u984D", "uFF08", "u7A0E",
                 "u8FBC", "uFF09">>]

\* a row without voucher id and detail number, its amount cell rewritten
\* as text
SummaryRow(label, n) ==
    [voucher_id |-> <<>>, detail_no |-> <<>>, item_details |-> label,
     amount |-> YenText(n)]

\* the rows of the receipt's items, or the single row of a receipt without
\* items; detailNoCounter is the counter's value before the receipt
DetailRows(receipt, receiptNo, detailNoCounter) ==
    IF Len(receipt.items) > 0
    THEN [itemIndex \in 1..Len(receipt.items) |->
            [voucher_id |-> IF itemIndex = 1
                            THEN PadStart(DecimalText(receiptNo), 3, "0")
                            ELSE <<>>,
             detail_no |-> <<detailNoCounter + itemIndex - 1>>,
             item_details |-> <<"item">>,
             amount |-> YenText(receipt.items[itemIndex].amount)]]
    ELSE <<[voucher_id |-> PadStart(DecimalText(receiptNo), 3, "0"),
            detail_no |-> <<detailNoCounter>>,
            item_details |-> <<"item">>,
            amount |-> YenText(receipt.amount.value)]>>

\* the number of times detailNoCounter++ runs for the receipt
DetailCount(receipt) ==
    IF Len(receipt.items) > 0 THEN Len(receipt.items) ELSE 1

\* the 小計 row
SubtotalRow(receipt) ==
    SummaryRow(RowLabel.subtotal, FieldOr(receipt.subtotal, receipt.amount).value)

\* the 消費税 rows
TaxRowsStandardIsTax(receipt) ==
    IF FieldPositive(receipt.tax)
    THEN IF FieldPositive(receipt.reduced_tax)
         THEN <<SummaryRow(RowLabel.standardTax, receipt.tax.value),
                SummaryRow(RowLabel.reducedTax, receipt.reduced_tax.value)>>
         ELSE <<SummaryRow(RowLabel.tax, receipt.tax.value)>>
    ELSE <<>>

TaxRows(receipt) ==
    IF FieldPositive(receipt.tax)
    THEN IF FieldPositive(receipt.reduced_tax)
         THEN <<SummaryRow(RowLabel.standardTax,
                           receipt.tax.value - receipt.reduced_tax.value),
                SummaryRow(RowLabel.reducedTax, receipt.reduced_tax.value)>>
         ELSE <<SummaryRow(RowLabel.tax, receipt.tax.value)>>
    ELSE <<>>

\* the 合計金額（税込） row
TotalRow(receipt) == SummaryRow(RowLabel.total, receipt.amount.value)

RECURSIVE WorksheetRows(_, _, _)
\* the body of receiptData.forEach from receipt number receiptNo on
WorksheetRows(receipts, receiptNo, detailNoCounter) ==
    IF receiptNo > Len(receipts) THEN <<>>
    ELSE LET receipt == receipts[receiptNo]
         IN  DetailRows(receipt, receiptNo, detailNoCounter)
                \o <<SubtotalRow(receipt)>> \o TaxRows(receipt)
                \o <<TotalRow(receipt)>>
                \o WorksheetRows(receipts, receiptNo + 1,
                                 detailNoCounter + DetailCount(receipt))

RECURSIVE TotalAmount(_)
\* totalAmount += receipt.amount over the receipts
TotalAmount(receipts) ==
    IF receipts = <<>> THEN 0
    ELSE Head(receipts).amount.value + TotalAmount(Tail(receipts))

\* generateExcelFile(receiptData): undefined.toLocaleString() throws for a
\* receipt without amount; otherwise the worksheet's rows and the 全体合計
\* row's amount
generateExcelFile(receipts) ==
    IF \E k \in 1..Len(receipts) : ~receipts[k].amount.given
    THEN [kind |-> "throws"]
    ELSE [kind |-> "workbook",
          rows |-> WorksheetRows(receipts, 1, 1),
          totalAmount |-> TotalAmount(receipts)]

\* the items of a receipt with n items
ItemsOf(n) == [itemIndex \in 1..n |-> [amount |-> itemIndex]]

\* the amounts the extraction can deliver: none, or a number
AmountFields == {NoField} \cup {Field(n) : n \in 0..MaxYen}

\* the tax fields the extraction can deliver
TaxFields == {NoField} \cup {Field(n) : n \in (0 - 1)..MaxYen}

\* one receipt, every field free
ReceiptInputs ==
    [amount : AmountFields, subtotal : AmountFields, tax : TaxFields,
     reduced_tax : TaxFields, items : {ItemsOf(n) : n \in 0..MaxParts}]

\* receipts of several kinds of item lists, with amount only
PlainReceipts ==
    [amount : {Field(n) : n \in 1..MaxYen}, subtotal : {NoField},
     tax : {NoField}, reduced_tax : {NoField},
     items : {ItemsOf(0), ItemsOf(MaxParts)}]

\* the receipt lists handed to generateExcelFile: never empty
ReceiptLists ==
    {<<receipt>> : receipt \in ReceiptInputs}
        \cup UNION {[1..n -> PlainReceipts] : n \in 2..MaxFiles}

\* the server before generateExcelFile is called
InitReport ==
    /\ ServerIdle
    /\ ServerStarted(DefaultEnvironment)

\* generateExcelFile(receipts)
GenerateExcelFile(receipts) ==
    /\ invoked = NoCall
    /\ invoked' = [op |-> "generateExcelFile", receiptData |-> receipts]
    /\ returned' = generateExcelFile(receipts)
    /\ UNCHANGED <<LLM_CONFIG, llmService, storeVars, batchVars, classifyVars>>

NextReport == \E receipts \in Uncalled(ReceiptLists) : GenerateExcelFile(receipts)

ReportSpec == InitReport /\ [][NextReport]_vars

\* ------------------------------------------------------------------------
\* The tax lines and the totals of the report
\* ------------------------------------------------------------------------

\* the number an amount cell shows
YenValue(text) ==
    LET body == Tail(text)
        magnitude == NumericValue(SelectSeq(body, IsDigit), 0)
    IN  IF Head(body) = "-" THEN 0 - magnitude ELSE magnitude

\* the rows of a worksheet with one of the given item_details texts
RowsLabelled(rows, labels) ==
    SelectSeq(rows, LAMBDA row : row.item_details \in labels)

\* the labels and the values of the tax lines of a worksheet
TaxLines(rows) ==
    LET lines == RowsLabelled(rows, {RowLabel.standardTax, RowLabel.reducedTax,
                                     RowLabel.tax})
    IN  [k \in 1..Len(lines) |->
            [label |-> lines[k].item_details, value |-> YenValue(lines[k].amount)]]

RECURSIVE SumOfValues(_)
SumOfValues(lines) ==
    IF lines = <<>> THEN 0 ELSE Head(lines).value + SumOfValues(Tail(lines))

\* a report of exactly one receipt was assembled
OneReceiptReported ==
    /\ invoked.op = "generateExcelFile"
    /\ returned.kind = "workbook"
    /\ Len(invoked.receiptData) = 1

\* C22: in the report of a receipt, tax > 0 and reduced_tax > 0 give a
\* standard-rate line of tax - reduced_tax followed by a reduced-rate line of
\* reduced_tax; tax > 0 and reduced_tax missing or 0 give one combined line
\* of tax; tax missing or 0 gives no tax line; and the tax lines add up to
\* tax (0 when tax is missing), also when reduced_tax exceeds tax
C22_TaxLines ==
    OneReceiptReported =>
        LET receipt == invoked.receiptData[1]
            tax == receipt.tax
            reduced == receipt.reduced_tax
            lines == TaxLines(returned.rows)
        IN  /\ (tax.given /\ tax.value > 0 /\ reduced.given /\ reduced.value > 0)
                 => lines = <<[label |-> RowLabel.standardTax,
                               value |-> tax.value - reduced.value],
                              [label |-> RowLabel.reducedTax,
                               value |-> reduced.value]>>
            /\ (tax.given /\ tax.value > 0
                  /\ (~reduced.given \/ reduced.value = 0))
                 => lines = <<[label |-> RowLabel.tax, value |-> tax.value]>>
            /\ (~tax.given \/ tax.value = 0) => lines = <<>>
            /\ (~tax.given \/ tax.value >= 0) => SumOfValues(lines) = tax.value

\* a receipt whose reduced_tax (2) exceeds its tax (1) was reported with the
\* lines -1 and 2
C22_Witness ==
    /\ OneReceiptReported
    /\ invoked.receiptData[1].tax = Field(1)
    /\ invoked.receiptData[1].reduced_tax = Field(2)
    /\ TaxLines(returned.rows)
         = <<[label |-> RowLabel.standardTax, value |-> 0 - 1],
             [label |-> RowLabel.reducedTax, value |-> 2]>>

\* the value of the first row of a worksheet with the given label
ValueLabelled(rows, label) == YenValue(RowsLabelled(rows, {label})[1].amount)

\* C23: the subtotal line of a receipt's report is receipt.subtotal whenever
\* subtotal is present, 0 included, and receipt.amount only when it is
\* missing; the receipt's total line is amount and the grand total is the sum
\* of the amounts
C23_SubtotalLine ==
    /\ OneReceiptReported =>
          LET receipt == invoked.receiptData[1]
          IN  /\ ValueLabelled(returned.rows, RowLabel.subtotal)
                   = IF receipt.subtotal.given THEN receipt.subtotal.value
                     ELSE receipt.amount.value
              /\ ValueLabelled(returned.rows, RowLabel.total)
                   = receipt.amount.value
    /\ (invoked.op = "generateExcelFile" /\ returned.kind = "workbook")
          => returned.totalAmount = TotalAmount(invoked.receiptData)

\* ------------------------------------------------------------------------
\* Overlapping batch-process requests
\* ------------------------------------------------------------------------

\* batch-process requests that may overlap, on a store that is left alone
\* meanwhile: every request runs the handler on its own
NextOverlap ==
    \/ \E r \in Requests : BatchRejected(r)
    \/ \E r \in Requests : BatchStart(r)
    \/ \E r \in Requests, i \in Items : CallReturns(r, i)
    \/ \E r \in Requests, i \in Items : CallThrows(r, i)

\* the store holds at most one file more than one request may have in flight
InitOverlap ==
    /\ InitUploaded
    /\ Len(fileStorage) <= MAX_CONCURRENT + 1

OverlapSpec == InitOverlap /\ [][NextOverlap]_vars

\* the extraction calls in flight, over all requests
TotalInFlight == Cardinality({<<r, i>> \in Requests \X Items : i \in InFlight(r)})

\* C24: also when batch-process requests overlap, the number of extraction
\* calls in flight, over all requests, never exceeds MAX_CONCURRENT
C24_GlobalLimit == TotalInFlight <= MAX_CONCURRENT

\* ------------------------------------------------------------------------
\* Priorities inside the master lookup and between keyword groups
\* ------------------------------------------------------------------------

\* the description names the account and one of its sub-accounts
NamesAccountAndSub(lower, leaf) ==
    /\ leaf.account.name # <<>>
    /\ Includes(lower, ToLowerCase(leaf.account.name))
    /\ \E k \in 1..Len(leaf.account.subs) :
          /\ leaf.account.subs[k].name # Undefined
          /\ Includes(lower, ToLowerCase(leaf.account.subs[k].name))

\* C25: when the description contains the name of the account the result
\* reports and the name of one of that account's sub-accounts, the result
\* carries a sub-account whose name the description contains
C25_SubAccountNameFirst ==
    (accountInfo # NotCalled /\ accountInfo.kind = "result") =>
        LET lower == ToLowerCase(itemName)
        IN  \A leaf \in Range(ACCOUNT_DATA) :
                (/\ NamesAccountAndSub(lower, leaf)
                 /\ accountInfo.accountName = leaf.account.name)
                    => /\ accountInfo.subAccountName # <<>>
                       /\ Includes(lower, ToLowerCase(accountInfo.subAccountName))

\* the groups tested before the given one that the description matches
EarlierHits(group) ==
    {g \in GroupHits : \A h \in 1..Len(CascadeGroups) :
                          CascadeGroups[h] = group => g < h}

\* C26: between keyword groups only the order of the tests decides, never
\* the longest keyword. With no master match, a description containing 駐車場
\* is never classified 地代家賃 (74310), and is classified 車両費 (74540) by
\* the keyword 駐車 when no earlier group matches; a description containing
\* 写真 is never classified by the generic office-supplies group, and is
\* classified 広告宣伝費 (74510) when no earlier group matches.
C26_ListOrderOnly ==
    (accountInfo # NotCalled /\ InDataModel(ACCOUNT_DATA) /\ MasterHits = {}) =>
        LET lower == ToLowerCase(itemName)
        IN  /\ Includes(lower, <<"u99d0", "u8eca", "u5834">>) =>
                /\ accountInfo # RentGroup.result
                /\ EarlierHits(VehicleGroup) = {} =>
                      /\ accountInfo = VehicleGroup.result
                      /\ accountInfo.accountCode = <<"7", "4", "5", "4", "0">>
            /\ Includes(lower, <<"u5199", "u771f">>) =>
                /\ accountInfo # OfficeSuppliesGroup.result
                /\ EarlierHits(PhotoGroup) = {} =>
                      /\ accountInfo = PhotoGroup.result
                      /\ accountInfo.accountCode = <<"7", "4", "5", "1", "0">>

\* C26 witness: the description 駐車場, which contains keywords of the vehicle
\* group and of the rent group, was classified 車両費
C26_Witness ==
    /\ itemName = <<"u99d0", "u8eca", "u5834">>
    /\ InDataModel(ACCOUNT_DATA)
    /\ MasterHits = {}
    /\ accountInfo.kind = "result"
    /\ accountInfo.accountCode = <<"7", "4", "5", "4", "0">>
    /\ accountInfo # RentGroup.result

\* ------------------------------------------------------------------------
\* The state of the gate
\* ------------------------------------------------------------------------

\* C27: in every reachable state of a batch, 0 <= currentConcurrent <=
\* maxConcurrent; the wait queue is non-empty only when currentConcurrent =
\* maxConcurrent, and holds exactly the items waiting in acquire();
\* currentConcurrent is the number of items admitted and not yet released;
\* and when every item of the batch has finished, currentConcurrent is 0 and
\* the queue is empty.
C27_GateState ==
    \A r \in Requests :
        LET s == semaphore[r]
        IN  /\ 0 <= s.currentConcurrent
            /\ s.currentConcurrent <= s.maxConcurrent
            /\ Len(s.queue) > 0 => s.currentConcurrent = s.maxConcurrent
            /\ Range(s.queue) = Queued(r)
            /\ Len(s.queue) = Cardinality(Queued(r))
            /\ s.currentConcurrent = Cardinality(InFlight(r))
            /\ (Len(promise[r]) = Len(batchFiles[r]) /\ Settled(promise[r]))
                  => (s.currentConcurrent = 0 /\ s.queue = <<>>)

\* C27 witness: a batch of four files, two of which had to wait, has
\* finished, and the gate is back at 0 with an empty queue
C27_Witness ==
    \E r \in Requests :
        /\ phase[r] = "responded"
        /\ Len(batchFiles[r]) = 4
        /\ Cardinality(waited[r]) = 2
        /\ Len(admitLog[r]) = 4
        /\ Settled(promise[r])
        /\ semaphore[r].currentConcurrent = 0
        /\ semaphore[r].queue = <<>>

\* ------------------------------------------------------------------------
\* The order of the receipts in the report
\* ------------------------------------------------------------------------

\* the items of the batch whose extraction succeeded
Succeeded(r) ==
    {i \in 1..Len(promise[r]) :
        promise[r][i].state = "fulfilled" /\ promise[r][i].value.success}

\* the receipt generateExcelFile gets for an extracted result without items
AsReceipt(result) ==
    [amount |-> IF result.hasAmount THEN Field(1) ELSE NoField,
     subtotal |-> NoField, tax |-> NoField, reduced_tax |-> NoField,
     items |-> ItemsOf(0)]

\* the rows of the report of the request that carry a detail number
DetailRowsOf(r) ==
    SelectSeq(generateExcelFile([k \in 1..Len(receiptData[r]) |->
                                    AsReceipt(receiptData[r][k])]).rows,
              LAMBDA row : row.detail_no # <<>>)

\* C28: the receipts handed to generateExcelFile are the results of the
\* successful items in upload order, whatever the order in which the calls
\* completed: the k-th receipt belongs to the k-th successful file of the
\* batch, and in the report it gets voucher id k (three digits) and detail
\* number k.
C28_UploadOrder ==
    \A r \in Requests :
        (phase[r] = "responded" /\ response[r] # "400") =>
            /\ Len(receiptData[r]) = Cardinality(Succeeded(r))
            /\ \A k \in 1..Len(receiptData[r]) :
                  \E i \in Succeeded(r) :
                     /\ Cardinality({j \in Succeeded(r) : j <= i}) = k
                     /\ receiptData[r][k] = promise[r][i].value.result
                     /\ receiptData[r][k].source = batchFiles[r][i]
            /\ response[r] = "200" =>
                  /\ Len(DetailRowsOf(r)) = Len(receiptData[r])
                  /\ \A k \in 1..Len(receiptData[r]) :
                        /\ DetailRowsOf(r)[k].voucher_id
                              = PadStart(DecimalText(k), 3, "0")
                        /\ DetailRowsOf(r)[k].detail_no = <<k>>

\* C28 witness: in a batch of four files the second call completed first and
\* the third failed; the report got the receipts of the first, second and
\* fourth file, in this order
C28_Witness ==
    \E r \in Requests :
        /\ response[r] = "200"
        /\ Len(batchFiles[r]) = 4
        /\ firstSettled[r] = 2
        /\ Succeeded(r) = {1, 2, 4}
        /\ Len(receiptData[r]) = 3
        /\ receiptData[r][1].source = batchFiles[r][1]
        /\ receiptData[r][2].source = batchFiles[r][2]
        /\ receiptData[r][3].source = batchFiles[r][4]
        /\ DetailRowsOf(r)[3].voucher_id = <<"0", "0", "3">>

\* ------------------------------------------------------------------------
\* Switching the provider while a batch runs
\* ------------------------------------------------------------------------

\* the server started with the keys of both providers
InitSwitch ==
    /\ ServerIdle
    /\ ServerStarted(FullEnvironment)

\* uploads, one batch-process request and switch-llm requests for the
\* registered providers, in any order
NextSwitch ==
    \/ (nextFileId <= MAX_CONCURRENT + 1 /\ Upload)
    \/ \E provider \in {JsString(OpenAIName), JsString(GeminiName)},
          probe \in Probes : SwitchLLM(provider, probe)
    \/ \E r \in SingleRequest : BatchStart(r)
    \/ \E r \in SingleRequest, i \in Items : CallReturns(r, i)
    \/ \E r \in SingleRequest, i \in Items : CallThrows(r, i)

SwitchSpec == InitSwitch /\ [][NextSwitch]_vars

\* C29: the extraction call of an item is made on the provider that is
\* active in the step in which the item is admitted, not on the one active
\* when the batch was submitted; and no later step, a successful switch-llm
\* included, changes the provider a started call runs on.
C29_ProviderAtAdmission ==
    [][\A r \in SingleRequest, i \in Items :
          /\ (i \in InFlight(r)' /\ i \notin InFlight(r))
                => servedBy'[r][i] = llmService.provider
          /\ (i \in 1..Len(servedBy[r]) /\ servedBy[r][i] # NoProvider)
                => servedBy'[r][i] = servedBy[r][i]]_vars

\* C29 witness: the first item's call, started on OpenAI, is still in flight
\* after a switch to Gemini, and the third item, admitted after the switch,
\* runs on Gemini
C29_Witness ==
    \E r \in SingleRequest :
        /\ {1, 3} \subseteq InFlight(r)
        /\ servedBy[r][1] = OpenAIName
        /\ servedBy[r][3] = GeminiName
        /\ llmService.provider = GeminiName
        /\ returned = [status |-> 200]

\* ------------------------------------------------------------------------
\* The masked configuration
\* ------------------------------------------------------------------------

\* API key values other environments may hold
KeyValues == {"sk-openai", "sk-gemini", "sk-other"}

\* the environments that differ from env at most in the values of the keys
\* that env has
KeyVariants(env) ==
    {[env EXCEPT !.openai.apiKey = ok, !.gemini.apiKey = gk] :
        ok \in IF env.openai.apiKey = "" THEN {""} ELSE KeyValues,
        gk \in IF env.gemini.apiKey = "" THEN {""} ELSE KeyValues}

\* C30: the configuration info served by /api/llm-info has no apiKey
\* property, none of its texts is a key, and it is the same for every
\* environment that differs only in the values of its non-empty keys: of a
\* key it tells only whether there is one.
C30_KeysMasked ==
    (invoked = [op |-> "llm-info"]) =>
        LET info == returned.config
        IN  /\ \A other \in KeyVariants(LLM_CONFIG) :
                  getConfigInfo(other) = info
            /\ \A provider \in {"openai", "gemini"} :
                  /\ "apiKey" \notin DOMAIN info.configs[provider]
                  /\ info.configs[provider].hasApiKey
                        = (LLM_CONFIG[provider].apiKey # "")
                  /\ info.configs[provider].model \notin KeyValues
                  /\ info.configs[provider].temperature \notin KeyValues

\* C30 witness: the info served in an environment with an OpenAI key and
\* without a Gemini key
C30_Witness ==
    /\ invoked = [op |-> "llm-info"]
    /\ LLM_CONFIG.openai.apiKey = "sk-openai"
    /\ LLM_CONFIG.gemini.apiKey = ""
    /\ Cardinality(KeyVariants(LLM_CONFIG)) = 3
    /\ returned.config.configs.openai.hasApiKey
    /\ ~returned.config.configs.gemini.hasApiKey

====
